---- MODULE Spec2Model ----
(***************************************************************************)
(* Model of the ytviewer YouTube client (internal/youtube/client.go): the  *)
(* TTL-gated video cache, the batched fetch with channel-name backfill,    *)
(* the subscription list with its persisted copy, and the subscription     *)
(* info cache.                                                             *)
(*                                                                         *)
(* A remote call is an input of the action that makes it: its outcome      *)
(* (error, which channels the response holds, which feed items) is drawn   *)
(* with \E.  Video and Subscription keep the fields the client reads or    *)
(* compares (ID, ChannelName, PublishedAt; ID, Title); Title, Thumbnail,   *)
(* Description and the counters are copied through by the code and left    *)
(* out.  Remote responses are taken to be well formed (every requested     *)
(* part is present).                                                       *)
(***************************************************************************)
EXTENDS Integers, Sequences, FiniteSets, Bags, TLC

VARIABLES
    subscribedChannels,   \* Client.subscribedChannels: sequence of channel IDs
    persisted,            \* config.json "subscriptions", as last written
    cachedSubscriptions,  \* Client.cachedSubscriptions (<<>> is nil)
    channelCache,         \* Client.channelCache: channel ID -> name
    videoCache,           \* Client.videoCache: channel ID -> sequence of Video
    lastFetchTime,        \* Client.lastFetchTime (0 is the zero time)
    now,                  \* the wall clock
    ret,                  \* what the last client call did and returned
    rebuilt,              \* history: the time of the last successful rebuild (0: none)
    ttl,                  \* Client.cacheDuration, in clock ticks
    watchedVideos,        \* the persisted watched store: the set of watched video IDs
    played,               \* history: the videos the player has been started on
    view,                 \* the tea.Model on screen: "main" (Model) or "subs" (SubscriptionModel)
    mainModel,            \* ui.Model: loading, err, and the items of the list
    subModel,             \* ui.SubscriptionModel
    cmds,                 \* the tea.Cmd functions started and not yet run to their end
    msgs,                 \* the tea.Msg values sent and not yet passed to Update
    waiting               \* the remote call a method of the client is blocked in

vars == <<subscribedChannels, persisted, cachedSubscriptions, channelCache,
          videoCache, lastFetchTime, now, ret, rebuilt>>

\* what no method of the client writes: the cache duration, the watched store
\* and the state of the terminal program
appVars == <<ttl, watchedVideos, played, view, mainModel, subModel, cmds, msgs>>

allVars == <<vars, appVars, waiting>>

----------------------------------------------------------------------------
(* Bounds of the model *)

\* the clock runs from 1 to MaxTime
MaxTime == 3
\* Client.cacheDuration in clock ticks (config cache_duration, in minutes)
cacheDuration == 2
\* channels per batch: 50 in the code (client.go:118, 571), scaled down so
\* that the subscription lists of the model need more than one batch
BatchSize == 2
\* remote answers that go wrong (a call fails, a channel is left out or is
\* reported under a new title) during one GetLatestVideos or one resolve call
MaxFaults == 1

----------------------------------------------------------------------------
(* The remote side *)

\* channel IDs a user may enter or a config may hold; "ch3" is an ID that does
\* not have the "UC" prefix
Channels == {"UC1", "UC2", "ch3"}

\* snippet.title of a channel; "UCLA" is a title that starts with "UC", "beta"
\* one that sorts differently with and without case
ChannelTitle(id) ==
    CASE id = "UC1" -> "Alpha"
      [] id = "UC2" -> "UCLA"
      [] id = "ch3" -> "beta"

\* uuid.Parse(s) succeeds or strings.HasPrefix(s, "UC"), over the strings of
\* the model (no ID or title of the model is a UUID)
LooksLikeChannelID(s) == s \in {"UC1", "UC2", "UCLA", "UCLA2"}

\* item.Snippet.Title of a channel the owner has renamed since: the remote
\* may report either title, from one call to the next. A title is any string
\* its owner likes: the new title of ch3 is the ID of another channel.
NewTitle(title) ==
    CASE title = "Alpha" -> "Alpha2"
      [] title = "UCLA" -> "UCLA2"
      [] title = "beta" -> "UC2"

RemoteTitle(id, renamed) ==
    IF id \in renamed THEN NewTitle(ChannelTitle(id)) ELSE ChannelTitle(id)

\* a publishedAt string that time.Parse(time.RFC3339, _) rejects
BadTime == 0 - 1

\* the uploads playlist of a channel as the remote may report it, in
\* NumSnapshots snapshots: from the second on UC1 has a newer upload and the
\* item of ch3 a date that parses. Items are [ID, publishedAt].
NumSnapshots == 2
Uploads(snap, id) ==
    CASE id = "UC1" /\ snap = 1 -> << [ID |-> "a1", publishedAt |-> 2] >>
      [] id = "UC1" /\ snap > 1 -> << [ID |-> "a2", publishedAt |-> 4],
                                      [ID |-> "a1", publishedAt |-> 2] >>
      [] id = "UC2" -> << [ID |-> "b1", publishedAt |-> 3],
                          [ID |-> "b2", publishedAt |-> 2] >>
      [] id = "ch3" /\ snap = 1 -> << [ID |-> "c1", publishedAt |-> BadTime] >>
      [] id = "ch3" /\ snap > 1 -> << [ID |-> "c1", publishedAt |-> 1] >>

----------------------------------------------------------------------------
(* Helpers *)

Range(s) == {s[i] : i \in 1..Len(s)}

Min(a, b) == IF a < b THEN a ELSE b

RemoveAt(s, i) == SubSeq(s, 1, i - 1) \o SubSeq(s, i + 1, Len(s))

RECURSIVE Flatten(_)
Flatten(ss) == IF ss = <<>> THEN <<>> ELSE Head(ss) \o Flatten(Tail(ss))

RECURSIVE SetToSeq(_)
SetToSeq(S) ==
    IF S = {} THEN <<>>
    ELSE LET x == CHOOSE y \in S : TRUE IN <<x>> \o SetToSeq(S \ {x})

CeilDiv(n, d) == (n + d - 1) \div d

\* an empty map
EmptyMap == [x \in {} |-> x]

\* the results sort.Slice(s, less) may leave: every permutation of s in which
\* no element is followed by one that is less than it is not ruled out by its
\* contract (the sort is not stable, and on the cache-hit path the input
\* order is the iteration order of a map); less is the set of pairs <<a, b>>
\* of elements for which the less function answers true
SortSlice(s, less) ==
    LET RECURSIVE Sorted(_)
        Sorted(t) ==
            IF t = <<>> THEN {<<>>}
            ELSE UNION { { <<t[i]>> \o r : r \in Sorted(RemoveAt(t, i)) } :
                         i \in { k \in 1..Len(t) :
                                 \A j \in 1..Len(t) : <<t[j], t[k]>> \notin less } }
    IN  Sorted(s)

OldestFirst(a, b) == a.PublishedAt < b.PublishedAt

\* allVideos[i].PublishedAt.After(allVideos[j].PublishedAt)
NewestFirst(a, b) == a.PublishedAt > b.PublishedAt

\* the less function of the two video sorts, as a relation on the elements of s
ByDate(s) == { p \in Range(s) \X Range(s) : NewestFirst(p[1], p[2]) }

VideoIDs(vs) == [i \in 1..Len(vs) |-> vs[i].ID]

----------------------------------------------------------------------------
(* Results of a call *)

NoErr == ""

\* op, arg, err and videos are the call and what it returned. The rest records
\* what the call did: hit, it took the cache-hit path; metaCalls, nameCalls,
\* feedCalls and infoCalls, the Channels.List(contentDetails),
\* Channels.List(snippet), PlaylistItems.List and
\* Channels.List(snippet, statistics) calls it issued; failedAt, the number of
\* the batch whose metadata call failed, or of the failed call of
\* GetSubscriptionInfo (0: none); absent and failed, the
\* channels it skipped; remote, the answer to the validation call of
\* AddSubscription; ids and names, the argument and the result of
\* GetChannelNamesForIDs; batches, the arguments of its fetchVideosForChannels
\* calls, in the order of the calls; metaErr, a metadata call of it failed;
\* unresolved, the IDs its failed name-backfill calls were made for;
\* collected, the strings it has collected as missing channel IDs.
Ret(op, arg, err) ==
    [op |-> op, arg |-> arg, err |-> err, hit |-> FALSE, videos |-> <<>>,
     metaCalls |-> 0, nameCalls |-> 0, feedCalls |-> 0, infoCalls |-> 0,
     failedAt |-> 0, absent |-> {}, failed |-> {}, remote |-> "",
     ids |-> <<>>, names |-> EmptyMap, batches |-> <<>>,
     metaErr |-> FALSE, unresolved |-> {}, collected |-> {}]

----------------------------------------------------------------------------
(* GetChannelNamesForIDs *)

RECURSIVE NameBatchesNoCache(_, _, _, _, _, _)
NameBatchesNoCache(missing, i, cc, result, failAt, remote) ==
    IF i > Len(missing) THEN [err |-> NoErr, names |-> result, cc |-> cc,
                              calls |-> (Len(missing) + BatchSize - 1) \div BatchSize]
    ELSE IF failAt = ((i - 1) \div BatchSize) + 1
         THEN [err |-> "error fetching channels", names |-> result, cc |-> cc,
               calls |-> failAt]
    ELSE LET end   == Min(i + BatchSize - 1, Len(missing))
             batch == SubSeq(missing, i, end)
             items == SelectSeq(batch, LAMBDA id : id \in Channels \ remote.unknown)
             add   == [id \in Range(items) |-> RemoteTitle(id, remote.renamed)]
             merge(m) == [x \in (DOMAIN m) \cup Range(items) |->
                            IF x \in Range(items) THEN add[x] ELSE m[x]]
         IN  NameBatchesNoCache(missing, end + 1, cc, merge(result), failAt, remote)

\* One call of GetChannelNamesForIDs(channelIDs) with the name cache cc. The
\* remote fails the batch request number failAt (0: none) and reports the IDs
\* of remote.unknown and every string that is no channel ID as non-existent,
\* and the channels of remote.renamed under their new title.
RECURSIVE NameBatches(_, _, _, _, _, _)
NameBatches(missing, i, cc, result, failAt, remote) ==
    IF i > Len(missing) THEN [err |-> NoErr, names |-> result, cc |-> cc,
                              calls |-> (Len(missing) + BatchSize - 1) \div BatchSize]
    ELSE IF failAt = ((i - 1) \div BatchSize) + 1
         THEN [err |-> "error fetching channels", names |-> result, cc |-> cc,
               calls |-> failAt]
    ELSE LET end   == Min(i + BatchSize - 1, Len(missing))
             batch == SubSeq(missing, i, end)
             items == SelectSeq(batch, LAMBDA id : id \in Channels \ remote.unknown)
             add   == [id \in Range(items) |-> RemoteTitle(id, remote.renamed)]
             merge(m) == [x \in (DOMAIN m) \cup Range(items) |->
                            IF x \in Range(items) THEN add[x] ELSE m[x]]
         IN  NameBatches(missing, end + 1, merge(cc), merge(result), failAt, remote)

GetChannelNamesForIDsStrict(channelIDs, cc, failAt, remote) ==
    LET hits    == SelectSeq(channelIDs, LAMBDA id : id \in DOMAIN cc)
        result  == [id \in Range(hits) |-> cc[id]]
        missingChannels == SelectSeq(channelIDs, LAMBDA id : id \notin DOMAIN cc)
    IN  IF missingChannels = <<>>
        THEN [err |-> NoErr, names |-> result, cc |-> cc, calls |-> 0]
        ELSE [NameBatches(missingChannels, 1, cc, result, failAt, remote) EXCEPT
                 !.err = IF Range(missingChannels) \cap remote.unknown # {}
                         THEN "channel not found" ELSE @]

\* lines 546-592: the IDs the name cache holds are answered from it (551-557,
\* 560-562), the others are requested in batches
GetChannelNamesForIDs(channelIDs, cc, failAt, remote) ==
    LET hits    == SelectSeq(channelIDs, LAMBDA id : id \in DOMAIN cc)
        result  == [id \in Range(hits) |-> cc[id]]
        missingChannels == SelectSeq(channelIDs, LAMBDA id : id \notin DOMAIN cc)
    IN  IF missingChannels = <<>>
        THEN [err |-> NoErr, names |-> result, cc |-> cc, calls |-> 0]
        ELSE NameBatches(missingChannels, 1, cc, result, failAt, remote)

----------------------------------------------------------------------------
(* fetchVideosForChannels *)

\* What the remote does during one call of fetchVideosForChannels: metaErr,
\* the Channels.List(contentDetails) call fails; absent, the channels its
\* response leaves out; failed, the channels whose PlaylistItems.List call
\* fails; snap, the uploads it reports; nameErr, the Channels.List(snippet)
\* call of the name backfill fails; unknown, the channels that call leaves out;
\* renamed, the channels it reports under their new title.
\* lines 456-483: the videos of one channel, named from the cache or by the
\* channel ID; an unparsable date becomes the current time
ChannelVideos(channelID, items, cc, t) ==
    [i \in 1..Len(items) |->
        [ID          |-> items[i].ID,
         ChannelName |-> IF channelID \in DOMAIN cc THEN cc[channelID] ELSE channelID,
         PublishedAt |-> IF items[i].publishedAt = BadTime THEN t
                         ELSE items[i].publishedAt]]

\* lines 494-514: the names that look like a channel ID, each once
MissingChannelIDs(allVideos) ==
    {allVideos[i].ChannelName : i \in {k \in 1..Len(allVideos) :
                                        LooksLikeChannelID(allVideos[k].ChannelName)}}

RenameNothing(videos, channelNames, keys) == videos

\* lines 524-538: a video whose name is a key of channelNames takes that name
Rename(videos, channelNames, keys) ==
    [i \in 1..Len(videos) |->
        IF videos[i].ChannelName \in keys \cap DOMAIN channelNames
        THEN [videos[i] EXCEPT !.ChannelName = channelNames[videos[i].ChannelName]]
        ELSE videos[i]]

\* lines 532-536: the cache entry of a key of channelNames is renamed throughout
RenameCache(vc, channelNames, keys) ==
    [c \in DOMAIN vc |->
        IF c \in keys \cap DOMAIN channelNames
        THEN [i \in 1..Len(vc[c]) |-> [vc[c][i] EXCEPT !.ChannelName = channelNames[c]]]
        ELSE vc[c]]

BackfillErrReturned(err) == err

\* lines 519-522: the error of the name backfill is printed and dropped
BackfillErr(err) == NoErr

FetchedUntilFailure(items, failed) ==
    SelectSeq(items, LAMBDA c :
        \A j \in 1..Len(items) :
            items[j] \in failed => \E i \in 1..(j - 1) : items[i] = c)

\* lines 449-454: a channel whose PlaylistItems.List call fails is passed
\* over (continue)
Fetched(items, failed) == SelectSeq(items, LAMBDA c : c \notin failed)

fetchVideosForChannels(channelIDs, vc, cc, t, r) ==
    IF r.metaErr
    THEN [err |-> "error fetching channels", videos |-> <<>>, vc |-> vc, cc |-> cc,
          metaCalls |-> 1, nameCalls |-> 0, feedCalls |-> 0,
          absent |-> {}, failed |-> {}, batch |-> channelIDs,
          metaErr |-> TRUE, unresolved |-> {}, collected |-> {}]
    ELSE
    LET items   == SelectSeq(channelIDs, LAMBDA c : c \notin r.absent)
        fetched == Fetched(items, r.failed)
        cv(c)   == ChannelVideos(c, Uploads(r.snap, c), cc, t)
        vc1     == [c \in (DOMAIN vc) \cup Range(fetched) |->
                      IF c \in Range(fetched) THEN cv(c) ELSE vc[c]]
        allVideos == Flatten([i \in 1..Len(fetched) |-> cv(fetched[i])])
        missingChannelIDs == MissingChannelIDs(allVideos)
        res     == GetChannelNamesForIDs(SetToSeq(missingChannelIDs), cc,
                                         IF r.nameErr THEN 1 ELSE 0,
                                         [unknown |-> r.unknown, renamed |-> r.renamed])
        patched == missingChannelIDs # {} /\ res.err = NoErr
        out     == IF patched THEN Rename(allVideos, res.names, missingChannelIDs)
                   ELSE allVideos
    IN  [err |-> IF missingChannelIDs # {} THEN BackfillErr(res.err) ELSE NoErr,
         videos |-> out,
         vc |-> IF patched THEN RenameCache(vc1, res.names, missingChannelIDs) ELSE vc1,
         cc |-> IF missingChannelIDs # {} THEN res.cc ELSE cc,
         metaCalls |-> 1,
         nameCalls |-> IF missingChannelIDs # {} THEN res.calls ELSE 0,
         feedCalls |-> Len(items),
         absent |-> Range(channelIDs) \cap r.absent,
         failed |-> Range(items) \cap r.failed,
         batch |-> channelIDs,
         metaErr |-> FALSE,
         unresolved |-> IF missingChannelIDs # {} /\ res.err # NoErr
                        THEN missingChannelIDs ELSE {},
         collected |-> missingChannelIDs]

----------------------------------------------------------------------------
(* GetLatestVideos *)

CacheValidInclusive(last, t) == last # 0 /\ t - last <= ttl

\* line 99: the cache is still valid
CacheValid(last, t) == last # 0 /\ t - last < ttl

BatchAtOneMore(channels, i) == SubSeq(channels, i, Min(i + BatchSize, Len(channels)))

\* lines 118-124: the batch that starts at index i (1-based)
BatchAt(channels, i) == SubSeq(channels, i, Min(i + BatchSize - 1, Len(channels)))

NextBatchStartByOne(i) == i + 1

\* line 118: i += 50
NextBatchStart(i) == i + BatchSize

NumBatches(channels) == (Len(channels) + BatchSize - 1) \div BatchSize

\* What the remote does during one rebuild: meta and name hold the numbers of
\* the batches whose metadata call, or whose name-backfill call, fails; absent,
\* failed, unknown and renamed are as for one batch (a channel is in one batch, so one
\* set serves every batch); snap is the uploads reported.
NoFault == [meta |-> {}, name |-> {}, absent |-> {}, failed |-> {}, unknown |-> {},
            renamed |-> {}]

OneFault(channels) ==
    {[NoFault EXCEPT !.meta = {k}] : k \in 1..NumBatches(channels)}
    \cup {[NoFault EXCEPT !.name = {k}] : k \in 1..NumBatches(channels)}
    \cup {[NoFault EXCEPT !.absent = {c}] : c \in Range(channels)}
    \cup {[NoFault EXCEPT !.failed = {c}] : c \in Range(channels)}
    \cup {[NoFault EXCEPT !.unknown = {c}] : c \in Range(channels)}
    \cup {[NoFault EXCEPT !.renamed = {c}] : c \in Range(channels)}

JoinFaults(f, g) ==
    [meta |-> f.meta \cup g.meta, name |-> f.name \cup g.name,
     absent |-> f.absent \cup g.absent, failed |-> f.failed \cup g.failed,
     unknown |-> f.unknown \cup g.unknown, renamed |-> f.renamed \cup g.renamed]

RECURSIVE FaultSets(_, _)
FaultSets(channels, n) ==
    IF n = 0 THEN {NoFault}
    ELSE {JoinFaults(f, g) : f \in FaultSets(channels, n - 1),
                             g \in {NoFault} \cup OneFault(channels)}

RebuildRemote(channels) ==
    {[faults |-> f, snap |-> n] : f \in FaultSets(channels, MaxFaults),
                                  n \in 1..NumSnapshots}

BatchRemote(r, k) ==
    [metaErr |-> k \in r.faults.meta, absent |-> r.faults.absent,
     failed |-> r.faults.failed, snap |-> r.snap,
     nameErr |-> k \in r.faults.name, unknown |-> r.faults.unknown,
     renamed |-> r.faults.renamed]

\* lines 124-130: what batch number k, whose result is b, adds to acc, the
\* result of the batches before it
Accumulate(acc, b, k) ==
    [err |-> b.err,
     videos |-> IF b.err = NoErr THEN acc.videos \o b.videos ELSE <<>>,
     vc |-> b.vc, cc |-> b.cc,
     metaCalls |-> acc.metaCalls + b.metaCalls,
     nameCalls |-> acc.nameCalls + b.nameCalls,
     feedCalls |-> acc.feedCalls + b.feedCalls,
     failedAt |-> IF b.err = NoErr THEN 0 ELSE k,
     absent |-> acc.absent \cup b.absent,
     failed |-> acc.failed \cup b.failed,
     batches |-> Append(acc.batches, b.batch),
     metaErr |-> b.metaErr,
     unresolved |-> acc.unresolved \cup b.unresolved,
     collected |-> acc.collected \cup b.collected]

RECURSIVE FetchBatches(_, _, _, _, _)

\* lines 126-128 and 118: an error ends the rebuild, otherwise the next batch
\* follows; sum is what the batches up to the one at index i have left
NextBatch(channels, i, sum, t, r) ==
    IF sum.err # NoErr THEN sum
    ELSE FetchBatches(channels, NextBatchStart(i), sum, t, r)

\* lines 115-131: the batches one after another, from index i on; acc is what
\* the batches before have left
FetchBatches(channels, i, acc, t, r) ==
    IF i > Len(channels) THEN acc
    ELSE NextBatch(channels, i,
                   Accumulate(acc,
                              fetchVideosForChannels(BatchAt(channels, i), acc.vc,
                                  acc.cc, t, BatchRemote(r, acc.metaCalls + 1)),
                              acc.metaCalls + 1),
                   t, r)

Rebuild(channels, vc, cc, t, r) ==
    FetchBatches(channels, 1,
                 [err |-> NoErr, videos |-> <<>>, vc |-> vc, cc |-> cc,
                  metaCalls |-> 0, nameCalls |-> 0, feedCalls |-> 0,
                  failedAt |-> 0, absent |-> {}, failed |-> {}, batches |-> <<>>,
                  metaErr |-> FALSE, unresolved |-> {}, collected |-> {}],
                 t, r)

\* lines 100-104: every cached video
CachedVideos(vc) == Flatten([i \in 1..Cardinality(DOMAIN vc) |-> vc[SetToSeq(DOMAIN vc)[i]]])

FetchTimeAlways(err, last, t) == t

\* line 139, reached only when every batch has succeeded
FetchTimeAfter(err, last, t) == IF err = NoErr THEN t ELSE last

GetLatestVideos ==
    IF CacheValid(lastFetchTime, now)
    THEN /\ \E allVideos \in SortSlice(CachedVideos(videoCache), ByDate(CachedVideos(videoCache))) :
              ret' = [Ret("GetLatestVideos", "", NoErr) EXCEPT
                         !.hit = TRUE, !.videos = allVideos]
         /\ UNCHANGED <<subscribedChannels, persisted, cachedSubscriptions,
                        channelCache, videoCache, lastFetchTime, now, rebuilt>>
    ELSE \E r \in RebuildRemote(subscribedChannels) :
           \E res \in {Rebuild(subscribedChannels, videoCache, channelCache, now, r)} :
               /\ videoCache' = res.vc
               /\ channelCache' = res.cc
               /\ lastFetchTime' = FetchTimeAfter(res.err, lastFetchTime, now)
               /\ \E allVideos \in SortSlice(res.videos, ByDate(res.videos)) :
                    /\ ret' = [Ret("GetLatestVideos", "", res.err) EXCEPT
                                  !.videos = allVideos,
                                  !.metaCalls = res.metaCalls,
                                  !.nameCalls = res.nameCalls,
                                  !.feedCalls = res.feedCalls,
                                  !.failedAt = res.failedAt,
                                  !.absent = res.absent,
                                  !.failed = res.failed,
                                  !.batches = res.batches,
                                  !.metaErr = res.metaErr,
                                  !.unresolved = res.unresolved,
                                  !.collected = res.collected]
                    /\ rebuilt' = IF res.err = NoErr THEN now ELSE rebuilt
               /\ UNCHANGED <<subscribedChannels, persisted, cachedSubscriptions, now>>

ClearVideoCacheKeepsTime ==
    /\ videoCache' = EmptyMap
    /\ ret' = Ret("ClearVideoCache", "", NoErr)
    /\ UNCHANGED <<subscribedChannels, persisted, cachedSubscriptions,
                   channelCache, lastFetchTime, now, rebuilt>>

ClearVideoCacheKeepsEntries ==
    /\ lastFetchTime' = 0
    /\ ret' = Ret("ClearVideoCache", "", NoErr)
    /\ UNCHANGED <<subscribedChannels, persisted, cachedSubscriptions,
                   channelCache, videoCache, now, rebuilt>>

ClearVideoCacheClearsNames ==
    /\ videoCache' = EmptyMap
    /\ lastFetchTime' = 0
    /\ channelCache' = EmptyMap
    /\ ret' = Ret("ClearVideoCache", "", NoErr)
    /\ UNCHANGED <<subscribedChannels, persisted, cachedSubscriptions, now, rebuilt>>

\* lines 594-598
ClearVideoCache ==
    /\ videoCache' = EmptyMap
    /\ lastFetchTime' = 0
    /\ ret' = Ret("ClearVideoCache", "", NoErr)
    /\ UNCHANGED <<subscribedChannels, persisted, cachedSubscriptions,
                   channelCache, now, rebuilt>>

\* time passes between two calls
Tick ==
    /\ now < MaxTime
    /\ now' = now + 1
    /\ UNCHANGED <<subscribedChannels, persisted, cachedSubscriptions,
                   channelCache, videoCache, lastFetchTime, ret, rebuilt>>

----------------------------------------------------------------------------
(* The subscription list *)

IndexOfOrFirst(channels, channelID) ==
    IF channelID \in Range(channels)
    THEN CHOOSE i \in 1..Len(channels) :
            /\ channels[i] = channelID
            /\ \A j \in 1..(i - 1) : channels[j] # channelID
    ELSE Min(1, Len(channels))

\* lines 242-248: the index of the first occurrence, 0 when there is none
IndexOf(channels, channelID) ==
    IF channelID \in Range(channels)
    THEN CHOOSE i \in 1..Len(channels) :
            /\ channels[i] = channelID
            /\ \A j \in 1..(i - 1) : channels[j] # channelID
    ELSE 0

saveAppended(channels, file, saveOk) ==
    IF ~saveOk THEN file
    ELSE IF Len(channels) > Len(file) THEN Append(file, channels[Len(channels)])
    ELSE channels

saveNothing(channels, file, saveOk) == file

saveAlways(channels, file, saveOk) == channels

\* lines 265-300: the file holds the list when the write succeeds
saveSubscriptions(channels, file, saveOk) == IF saveOk THEN channels ELSE file

\* lines 303-342. remote is the answer of the validation call: "err", "none"
\* (no such channel) or "ok"
AddResult(channels, channelID, remote, saveOk) ==
    IF remote = "err" THEN "error checking channel"
    ELSE IF remote = "none" THEN "channel not found"
    ELSE IF channelID \in Range(channels) THEN "already subscribed to this channel"
    ELSE IF ~saveOk THEN "error saving config"
    ELSE NoErr

AddMutatesUnchecked(channels, channelID, remote) == remote = "ok"

AddMutatesChecksFirst(channels, channelID, remote) ==
    remote = "ok" /\ (channels = <<>> \/ channels[1] # channelID)

AddMutatesUnvalidated(channels, channelID, remote) ==
    remote # "err" /\ channelID \notin Range(channels)

\* the validation and the duplicate check let the call through to line 329
AddMutates(channels, channelID, remote) ==
    remote = "ok" /\ channelID \notin Range(channels)

AddSubscriptionOf(ids) ==
    \E channelID \in ids, remote \in {"err", "none", "ok"}, saveOk \in BOOLEAN :
        /\ ret' = [Ret("AddSubscription", channelID,
                          AddResult(subscribedChannels, channelID, remote, saveOk))
                      EXCEPT !.remote = remote]
        /\ IF AddMutates(subscribedChannels, channelID, remote)
           THEN /\ subscribedChannels' = Append(subscribedChannels, channelID)
                /\ cachedSubscriptions' = <<>>
                /\ persisted' = saveSubscriptions(subscribedChannels', persisted, saveOk)
           ELSE UNCHANGED <<subscribedChannels, cachedSubscriptions, persisted>>
        /\ UNCHANGED <<channelCache, videoCache, lastFetchTime, now, rebuilt>>

AddSubscription == AddSubscriptionOf(Channels)

RemoveSubscriptionClears(ids) ==
    \E channelID \in ids, saveOk \in BOOLEAN :
        LET index == IndexOf(subscribedChannels, channelID)
        IN  IF index = 0
            THEN /\ ret' = Ret("RemoveSubscription", channelID,
                               "channel not found in subscriptions")
                 /\ UNCHANGED <<subscribedChannels, cachedSubscriptions, persisted,
                                channelCache, videoCache, lastFetchTime, now, rebuilt>>
            ELSE /\ subscribedChannels' = RemoveAt(subscribedChannels, index)
                 /\ cachedSubscriptions' = <<>>
                 /\ persisted' = saveSubscriptions(subscribedChannels', persisted, saveOk)
                 /\ ret' = Ret("RemoveSubscription", channelID,
                               IF saveOk THEN NoErr ELSE "error writing updated config")
                 /\ videoCache' = EmptyMap
                 /\ lastFetchTime' = 0
                 /\ UNCHANGED <<channelCache, now, rebuilt>>

\* lines 240-262
RemoveSubscriptionOf(ids) ==
    \E channelID \in ids, saveOk \in BOOLEAN :
        LET index == IndexOf(subscribedChannels, channelID)
        IN  IF index = 0
            THEN /\ ret' = Ret("RemoveSubscription", channelID,
                               "channel not found in subscriptions")
                 /\ UNCHANGED <<subscribedChannels, cachedSubscriptions, persisted,
                                channelCache, videoCache, lastFetchTime, now, rebuilt>>
            ELSE /\ subscribedChannels' = RemoveAt(subscribedChannels, index)
                 /\ cachedSubscriptions' = <<>>
                 /\ persisted' = saveSubscriptions(subscribedChannels', persisted, saveOk)
                 /\ ret' = Ret("RemoveSubscription", channelID,
                               IF saveOk THEN NoErr ELSE "error writing updated config")
                 /\ UNCHANGED <<channelCache, videoCache, lastFetchTime, now, rebuilt>>

RemoveSubscription == RemoveSubscriptionOf(Channels)

----------------------------------------------------------------------------
(* GetSubscriptionInfo *)

\* strings.ToLower(title) in byte order, over the titles of the model:
\* "alpha" < "beta" < "ucla"
LowerRank(title) ==
    CASE title = "Alpha" -> 1
      [] title = "beta" -> 2
      [] title = "UCLA" -> 3

\* line 230
TitleLess(a, b) == LowerRank(a.Title) < LowerRank(b.Title)

\* the less function of the subscription sort, as a relation on the elements of s
ByTitle(s) == { p \in Range(s) \X Range(s) : TitleLess(p[1], p[2]) }

RECURSIVE InfoLoopSkips(_, _, _, _, _)
InfoLoopSkips(channels, i, subscriptions, failAt, absent) ==
    IF i > Len(channels)
    THEN [err |-> NoErr, subscriptions |-> subscriptions, calls |-> Len(channels)]
    ELSE InfoLoopSkips(channels, i + 1,
                       IF channels[i] \in absent \/ failAt = i THEN subscriptions
                       ELSE Append(subscriptions,
                                   [ID |-> channels[i], Title |-> ChannelTitle(channels[i])]),
                       failAt, absent)

\* lines 186-226: one call per subscribed ID; the call number failAt fails
\* (0: none), the channels of `absent` come back with no item
RECURSIVE InfoLoop(_, _, _, _, _)
InfoLoop(channels, i, subscriptions, failAt, absent) ==
    IF i > Len(channels)
    THEN [err |-> NoErr, subscriptions |-> subscriptions, calls |-> Len(channels)]
    ELSE IF failAt = i
    THEN [err |-> "error fetching channel info", subscriptions |-> <<>>, calls |-> i]
    ELSE InfoLoop(channels, i + 1,
                  IF channels[i] \in absent THEN subscriptions
                  ELSE Append(subscriptions,
                              [ID |-> channels[i], Title |-> ChannelTitle(channels[i])]),
                  failAt, absent)

GetSubscriptionInfo ==
    /\ UNCHANGED <<subscribedChannels, persisted, channelCache, videoCache,
                   lastFetchTime, now, rebuilt>>
    /\ IF Len(cachedSubscriptions) > 0
       THEN /\ ret' = Ret("GetSubscriptionInfo", "", NoErr)
            /\ UNCHANGED cachedSubscriptions
       ELSE IF Len(subscribedChannels) = 0
       THEN /\ ret' = Ret("GetSubscriptionInfo", "", "no subscriptions found")
            /\ UNCHANGED cachedSubscriptions
       ELSE \E failAt \in 0..Len(subscribedChannels),
               absent \in SUBSET Range(subscribedChannels) :
              LET res == InfoLoop(subscribedChannels, 1, <<>>, failAt, absent)
              IN  /\ ret' = [Ret("GetSubscriptionInfo", "", res.err) EXCEPT
                                !.infoCalls = res.calls, !.failedAt = failAt,
                                !.absent = IF res.err = NoErr THEN absent ELSE {}]
                  /\ IF res.err = NoErr
                     THEN cachedSubscriptions' \in SortSlice(res.subscriptions, ByTitle(res.subscriptions))
                     ELSE UNCHANGED cachedSubscriptions

----------------------------------------------------------------------------
(* The name cache from outside *)

\* the longest argument of GetChannelNamesForIDs
MaxIDs == 3

\* What the remote answers during one resolve call: at most MaxFaults
\* channels are left out or reported under their new title
ResolveRemote ==
    {r \in [unknown : SUBSET Channels, renamed : SUBSET Channels] :
        Cardinality(r.unknown) + Cardinality(r.renamed) <= MaxFaults}

\* One call of GetChannelNamesForIDs (lines 546-592) or of
\* GetSubscribedChannelNames (lines 374-419, the same statements over the
\* subscription list): the batch request number failAt fails (0: none) and
\* the remote leaves out the channels of remote.unknown and reports those of
\* remote.renamed under their new title
ResolveCall(op, channelIDs) ==
    \E failAt \in 0..CeilDiv(Len(channelIDs), BatchSize), remote \in ResolveRemote :
        \E res \in {GetChannelNamesForIDs(channelIDs, channelCache, failAt, remote)} :
            /\ channelCache' = res.cc
            /\ ret' = [Ret(op, "", res.err) EXCEPT
                          !.ids = channelIDs, !.names = res.names,
                          !.nameCalls = res.calls, !.failedAt = failAt,
                          !.absent = remote.unknown \cap Range(channelIDs)]
            /\ UNCHANGED <<subscribedChannels, persisted, cachedSubscriptions,
                           videoCache, lastFetchTime, now, rebuilt>>

\* lines 546-592, called on any sequence of at most MaxIDs IDs
CallGetChannelNamesForIDs ==
    \E n \in 0..MaxIDs :
        \E channelIDs \in [1..n -> Channels] :
            ResolveCall("GetChannelNamesForIDs", channelIDs)

\* lines 374-419
GetSubscribedChannelNames ==
    ResolveCall("GetSubscribedChannelNames", subscribedChannels)

\* lines 345-371: remote is the answer of the call, "err", "none", "ok" or
\* "renamed" (the channel under its new title)
GetChannelName ==
    \E channelID \in Channels, remote \in {"err", "none", "ok", "renamed"} :
        /\ IF channelID \in DOMAIN channelCache
           THEN /\ ret' = [Ret("GetChannelName", channelID, NoErr) EXCEPT
                              !.names = [c \in {channelID} |-> channelCache[c]]]
                /\ UNCHANGED channelCache
           ELSE IF remote = "err"
           THEN /\ ret' = [Ret("GetChannelName", channelID, "error fetching channel")
                              EXCEPT !.nameCalls = 1]
                /\ UNCHANGED channelCache
           ELSE IF remote = "none"
           THEN /\ ret' = [Ret("GetChannelName", channelID, "channel not found")
                              EXCEPT !.nameCalls = 1]
                /\ UNCHANGED channelCache
           ELSE /\ channelCache' = [c \in (DOMAIN channelCache) \cup {channelID} |->
                                       IF c = channelID
                                       THEN RemoteTitle(c, IF remote = "renamed"
                                                           THEN {c} ELSE {})
                                       ELSE channelCache[c]]
                /\ ret' = [Ret("GetChannelName", channelID, NoErr) EXCEPT
                              !.nameCalls = 1,
                              !.names = [c \in {channelID} |-> channelCache'[c]]]
        /\ UNCHANGED <<subscribedChannels, persisted, cachedSubscriptions,
                       videoCache, lastFetchTime, now, rebuilt>>

----------------------------------------------------------------------------
(* The terminal program at its start *)

\* a message: subscriptionsMsg carries subscriptions, videosMsg videos,
\* unsubscribedMsg and videoWatchedMsg an ID (arg)
Msg(type) == [type |-> type, arg |-> "", videos |-> <<>>, subscriptions |-> <<>>]

\* a command: the function a handler has returned, running on its own; pc is
\* the client call it makes next (or the line it has reached inside a call),
\* subscriptions the local variable of GetSubscriptionInfo (client.go 184)
Cmd(kind, pc, arg) == [kind |-> kind, pc |-> pc, arg |-> arg, subscriptions |-> <<>>]

\* ui.go 216-226
fetchVideos == Cmd("fetchVideos", "GetLatestVideos", "")

\* part_001 76-85
fetchSubscriptions == Cmd("fetchSubscriptions", "GetSubscriptionInfo", "")

\* ui.go 140-205: an empty list, loading
NewModel == [loading |-> TRUE, err |-> NoErr, items |-> <<>>]

\* part_001 44-65
NewSubscriptionModel ==
    [subscriptions |-> <<>>, loading |-> TRUE, err |-> NoErr, cursor |-> 0,
     addMode |-> FALSE, channelInput |-> <<>>, addError |-> ""]

\* part_000 41-43 and ui.go 208-213: the program starts on the main view with
\* the command of Model.Init running; the subscription view is built when
\* it is opened
NewAppModel ==
    /\ view = "main"
    /\ mainModel = NewModel
    /\ subModel = NewSubscriptionModel
    /\ cmds = SetToBag({fetchVideos})
    /\ msgs = EmptyBag

\* client.go 72: the cache duration of the configuration, in minutes
NewClientCacheDuration(minutes) == minutes

\* a method of the client called by itself: the terminal program stands still
Client(A) == A /\ UNCHANGED appVars /\ UNCHANGED waiting

\* no method of the client is blocked in a remote call
NoCall == [op |-> "", call |-> "", deadline |-> FALSE]

\* a step of the terminal program, whose commands run each client method
\* from its call to its return
Program(A) == A /\ UNCHANGED waiting

----------------------------------------------------------------------------
(* The client *)

RECURSIVE SeqsOf(_)
\* the sequences that hold each element of S at most once
SeqsOf(S) ==
    {<<>>} \cup UNION { { <<x>> \o s : s \in SeqsOf(S \ {x}) } : x \in S }

\* NewClient, lines 58-74, on a configuration whose list names no channel twice
Init ==
    /\ subscribedChannels \in SeqsOf(Channels)
    /\ persisted = subscribedChannels
    /\ cachedSubscriptions = <<>>
    /\ channelCache = EmptyMap
    /\ videoCache = EmptyMap
    /\ lastFetchTime = 0
    /\ now = 1
    /\ ret = Ret("NewClient", "", NoErr)
    /\ rebuilt = 0
    /\ ttl = NewClientCacheDuration(cacheDuration)
    /\ watchedVideos = {}
    /\ played = {}
    /\ NewAppModel
    /\ waiting = NoCall

Next ==
    \/ Client(GetLatestVideos)
    \/ Client(ClearVideoCache)
    \/ Client(AddSubscription)
    \/ Client(RemoveSubscription)
    \/ Client(GetSubscriptionInfo)
    \/ Client(Tick)

\* the client under every call
Spec == Init /\ [][Next]_allVars

\* The video side: the client of a user who subscribes to all three channels,
\* reloads, force-reloads, and unsubscribes from and subscribes to UC1.
\* GetLatestVideos reads neither cachedSubscriptions nor the file, so the
\* calls left out change nothing it can see.
InitVideo == Init /\ subscribedChannels = <<"UC1", "UC2", "ch3">>

AddToggled == AddSubscriptionOf({"UC1"})

RemoveToggled == RemoveSubscriptionOf({"UC1"})

NextVideo ==
    \/ Client(GetLatestVideos)
    \/ Client(ClearVideoCache)
    \/ Client(AddToggled)
    \/ Client(RemoveToggled)
    \/ Client(Tick)

SpecVideo == InitVideo /\ [][NextVideo]_allVars

\* The subscription side: the list, the file and the subscription-info cache.
\* None of its calls reads the video cache, the name cache or the clock.
NextRegistry ==
    \/ Client(AddSubscription)
    \/ Client(RemoveSubscription)
    \/ Client(GetSubscriptionInfo)

SpecRegistry == Init /\ [][NextRegistry]_allVars

\* The name cache under every call that reads or writes it, and the calls
\* that change what GetLatestVideos resolves. The clock stands still: the
\* name cache has no expiry.
NextNames ==
    \/ Client(GetSubscribedChannelNames)
    \/ Client(GetChannelName)
    \/ Client(GetLatestVideos)
    \/ Client(ClearVideoCache)
    \/ Client(AddToggled)
    \/ Client(RemoveToggled)

SpecNames == InitVideo /\ [][NextNames]_allVars

\* The name resolver by itself, called on any sequence of IDs
NextResolver ==
    \/ Client(CallGetChannelNamesForIDs)
    \/ Client(GetSubscribedChannelNames)
    \/ Client(GetChannelName)

SpecResolver == InitVideo /\ [][NextResolver]_allVars

\* The subscription side on any configuration file: NewClient takes the list
\* of the file as it is (line 66), and the file is written by hand, so a
\* channel may be named more than once. MaxLoaded bounds the list of the file.
MaxLoaded == 3

InitLoaded ==
    /\ \E n \in 0..MaxLoaded : subscribedChannels \in [1..n -> Channels]
    /\ persisted = subscribedChannels
    /\ cachedSubscriptions = <<>>
    /\ channelCache = EmptyMap
    /\ videoCache = EmptyMap
    /\ lastFetchTime = 0
    /\ now = 1
    /\ ret = Ret("NewClient", "", NoErr)
    /\ rebuilt = 0
    /\ ttl = NewClientCacheDuration(cacheDuration)
    /\ watchedVideos = {}
    /\ played = {}
    /\ NewAppModel
    /\ waiting = NoCall

SpecLoaded == InitLoaded /\ [][NextRegistry]_allVars

----------------------------------------------------------------------------
(* The watched store and the player *)

MarkVideoAsWatchedAlone(store, videoID, ok) == IF ok THEN {videoID} ELSE store

\* markWatched(id) -> Result: the ID is in the store when the write has
\* persisted (ok); a failed write leaves the store as it was
MarkVideoAsWatched(store, videoID, ok) == IF ok THEN store \cup {videoID} ELSE store

\* isWatched(id), for every ID at once: the set of the IDs that map to true
GetWatchedVideos(store) == store

----------------------------------------------------------------------------
(* The terminal program: commands and messages *)

\* commands running and messages waiting, together
MaxCmds == 2

InFlight == BagCardinality(cmds) + BagCardinality(msgs)

\* a handler returns the command c: it runs on its own from here on
Start(c) == InFlight < MaxCmds /\ cmds' = cmds (+) SetToBag({c})

\* the command c has made its last call and sends msg
Finish(c, msg) ==
    /\ cmds' = cmds (-) SetToBag({c})
    /\ msgs' = msgs (+) SetToBag({msg})

\* the command c has made a call and goes on to the call pc
Continue(c, pc) ==
    /\ cmds' = (cmds (-) SetToBag({c})) (+) SetToBag({[c EXCEPT !.pc = pc]})
    /\ msgs' = msgs

\* ui.go 371-373 and 220-222
errMsg(err) == [Msg("errMsg") EXCEPT !.arg = err]

\* the message msg is taken to Update
Receive(msg) == msgs' = msgs (-) SetToBag({msg})

\* ui.go 216-226: the command of r, f and Model.Init. The videos are passed
\* on by their IDs, which is what the list compares
RunFetchVideos ==
    \E c \in BagToSet(cmds) :
        /\ c.pc = "GetLatestVideos"
        /\ GetLatestVideos
        /\ Finish(c, IF ret'.err # NoErr THEN errMsg(ret'.err)
                     ELSE [Msg("videosMsg") EXCEPT !.videos = VideoIDs(ret'.videos)])
        /\ UNCHANGED <<ttl, watchedVideos, played, view, mainModel, subModel>>

\* ui.go 269-273: the first call of the command of enter
RunMarkVideoAsWatched ==
    \E c \in BagToSet(cmds), ok \in BOOLEAN :
        /\ c.pc = "MarkVideoAsWatched"
        /\ watchedVideos' = MarkVideoAsWatched(watchedVideos, c.arg, ok)
        /\ ret' = Ret("MarkVideoAsWatched", c.arg,
                      IF ok THEN NoErr ELSE "error saving watched videos")
        /\ IF ok THEN Continue(c, "PlayVideo") ELSE Finish(c, errMsg(ret'.err))
        /\ UNCHANGED <<subscribedChannels, persisted, cachedSubscriptions, channelCache,
                       videoCache, lastFetchTime, now, rebuilt,
                       ttl, played, view, mainModel, subModel>>

\* ui.go 275-279 and client.go 145-170: the player is started; ok, the
\* process has been launched
RunPlayVideo ==
    \E c \in BagToSet(cmds), ok \in BOOLEAN :
        /\ c.pc = "PlayVideo"
        /\ ret' = Ret("PlayVideo", c.arg, IF ok THEN NoErr ELSE "error starting mpv")
        /\ played' = IF ok THEN played \cup {c.arg} ELSE played
        /\ Finish(c, IF ok THEN [Msg("videoWatchedMsg") EXCEPT !.arg = c.arg]
                     ELSE errMsg(ret'.err))
        /\ UNCHANGED <<subscribedChannels, persisted, cachedSubscriptions, channelCache,
                       videoCache, lastFetchTime, now, rebuilt,
                       ttl, watchedVideos, view, mainModel, subModel>>

\* part_001 76-85 and 125-131: the command of SubscriptionModel.Init, and the
\* second call of the command of enter
RunGetSubscriptionInfo ==
    \E c \in BagToSet(cmds) :
        /\ c.pc = "GetSubscriptionInfo"
        /\ GetSubscriptionInfo
        /\ Finish(c, IF ret'.err # NoErr THEN errMsg(ret'.err)
                     ELSE [Msg("subscriptionsMsg") EXCEPT
                              !.subscriptions = cachedSubscriptions'])
        /\ UNCHANGED <<ttl, watchedVideos, played, view, mainModel, subModel>>

\* ui.go 364-366 and part_001 78-83
subscriptionsMsg(subscriptions) ==
    [Msg("subscriptionsMsg") EXCEPT !.subscriptions = subscriptions]

\* client.go 174-231, inside a command: the cached entries are returned as
\* they are, an empty list is an error, and otherwise the entries are
\* fetched and sorted into the local variable, which line 234 has yet to
\* store. The requests of the loop take time, during which the other
\* commands and the handlers run
RunInfoLoop ==
    \E c \in BagToSet(cmds) :
        /\ c.pc = "GetSubscriptionInfo"
        /\ IF Len(cachedSubscriptions) > 0
           THEN /\ ret' = Ret("GetSubscriptionInfo", "", NoErr)
                /\ Finish(c, subscriptionsMsg(cachedSubscriptions))
           ELSE IF Len(subscribedChannels) = 0
           THEN /\ ret' = Ret("GetSubscriptionInfo", "", "no subscriptions found")
                /\ Finish(c, errMsg(ret'.err))
           ELSE \E failAt \in 0..Len(subscribedChannels),
                   absent \in SUBSET Range(subscribedChannels) :
                  \E res \in {InfoLoop(subscribedChannels, 1, <<>>, failAt, absent)} :
                      IF res.err # NoErr
                      THEN /\ ret' = [Ret("GetSubscriptionInfo", "", res.err) EXCEPT
                                         !.infoCalls = res.calls, !.failedAt = failAt]
                           /\ Finish(c, errMsg(res.err))
                      ELSE /\ UNCHANGED ret
                           /\ \E subscriptions \in SortSlice(res.subscriptions,
                                                            ByTitle(res.subscriptions)) :
                                 cmds' = (cmds (-) SetToBag({c})) (+)
                                         SetToBag({[c EXCEPT !.pc = "GetSubscriptionInfo.234",
                                                             !.subscriptions = subscriptions]})
                           /\ msgs' = msgs
        /\ UNCHANGED <<subscribedChannels, persisted, cachedSubscriptions, channelCache,
                       videoCache, lastFetchTime, now, rebuilt,
                       ttl, watchedVideos, played, view, mainModel, subModel>>

\* client.go 234-236 and part_001 83: the local variable is stored and
\* returned
RunInfoStore ==
    \E c \in BagToSet(cmds) :
        /\ c.pc = "GetSubscriptionInfo.234"
        /\ cachedSubscriptions' = c.subscriptions
        /\ ret' = Ret("GetSubscriptionInfo", "", NoErr)
        /\ Finish(c, subscriptionsMsg(c.subscriptions))
        /\ UNCHANGED <<subscribedChannels, persisted, channelCache,
                       videoCache, lastFetchTime, now, rebuilt,
                       ttl, watchedVideos, played, view, mainModel, subModel>>

\* part_001 119-123: the first call of the command of enter. The remote
\* knows the channels of the model and no other
RunAddSubscription ==
    \E c \in BagToSet(cmds) :
        /\ c.pc = "AddSubscription"
        /\ AddSubscriptionOf({c.arg})
        /\ c.arg \notin Channels => ret'.remote # "ok"
        /\ IF ret'.err # NoErr THEN Finish(c, errMsg(ret'.err))
           ELSE Continue(c, "GetSubscriptionInfo")
        /\ UNCHANGED <<ttl, watchedVideos, played, view, mainModel, subModel>>

\* part_001 199-205: the command of d
RunRemoveSubscription ==
    \E c \in BagToSet(cmds) :
        /\ c.pc = "RemoveSubscription"
        /\ RemoveSubscriptionOf({c.arg})
        /\ Finish(c, IF ret'.err # NoErr THEN errMsg(ret'.err)
                     ELSE [Msg("unsubscribedMsg") EXCEPT !.arg = c.arg])
        /\ UNCHANGED <<ttl, watchedVideos, played, view, mainModel, subModel>>

\* part_001 149
RunLoadMainView ==
    \E c \in BagToSet(cmds) :
        /\ c.pc = "loadMainViewMsg"
        /\ Finish(c, Msg("loadMainViewMsg"))
        /\ UNCHANGED <<vars, ttl, watchedVideos, played, view, mainModel, subModel>>

----------------------------------------------------------------------------
(* The main view: Model.Update, ui.go 228-340 *)

\* ui.go 240-241 and part_001 143-144: the program ends, and with it every
\* command and message
Quit ==
    /\ view \in {"main", "subs"} /\ ~(view = "subs" /\ subModel.addMode)
    /\ view' = "quit"
    /\ cmds' = EmptyBag /\ msgs' = EmptyBag
    /\ UNCHANGED <<vars, ttl, watchedVideos, played, mainModel, subModel>>

\* ui.go 243-246: the subscription view replaces the main view, whose Model
\* is dropped
MainKeySubscriptions ==
    /\ view = "main"
    /\ view' = "subs"
    /\ subModel' = NewSubscriptionModel
    /\ mainModel' = NewModel
    /\ Start(fetchSubscriptions)
    /\ UNCHANGED <<vars, ttl, watchedVideos, played, msgs>>

\* ui.go 248-254
MainKeyReload ==
    /\ view = "main"
    /\ mainModel' = [mainModel EXCEPT !.loading = TRUE]
    /\ Start(fetchVideos)
    /\ UNCHANGED <<vars, ttl, watchedVideos, played, view, subModel, msgs>>

\* ui.go 256-263: the cache is cleared by the handler itself, the fetch is
\* left to the command
MainKeyForceReload ==
    /\ view = "main"
    /\ ClearVideoCache
    /\ mainModel' = [mainModel EXCEPT !.loading = TRUE]
    /\ Start(fetchVideos)
    /\ UNCHANGED <<ttl, watchedVideos, played, view, subModel, msgs>>

\* ui.go 265-281: enter on the selected item, which may be any item of the list
MainKeyEnter ==
    /\ view = "main"
    /\ \E i \in 1..Len(mainModel.items) :
          Start(Cmd("play", "MarkVideoAsWatched", mainModel.items[i].ID))
    /\ UNCHANGED <<vars, ttl, watchedVideos, played, view, mainModel, subModel, msgs>>

\* ui.go 297-302
Items(videos, watched) ==
    [i \in 1..Len(videos) |-> [ID |-> videos[i], watched |-> videos[i] \in watched]]

\* ui.go 284-304: the watched store is read by the handler itself; ok, the
\* read has succeeded
MainUpdateVideos ==
    \E msg \in BagToSet(msgs), ok \in BOOLEAN :
        /\ view = "main" /\ msg.type = "videosMsg"
        /\ Receive(msg)
        /\ mainModel' =
              IF ok THEN [mainModel EXCEPT !.loading = FALSE,
                             !.items = Items(msg.videos, GetWatchedVideos(watchedVideos))]
              ELSE [mainModel EXCEPT !.loading = FALSE,
                       !.err = "error reading watched videos"]
        /\ UNCHANGED <<vars, ttl, watchedVideos, played, view, subModel, cmds>>

\* ui.go 306-308
MainUpdateErr ==
    \E msg \in BagToSet(msgs) :
        /\ view = "main" /\ msg.type = "errMsg"
        /\ Receive(msg)
        /\ mainModel' = [mainModel EXCEPT !.err = msg.arg, !.loading = FALSE]
        /\ UNCHANGED <<vars, ttl, watchedVideos, played, view, subModel, cmds>>

\* ui.go 325-332: the first item of that ID is marked
SetWatched(items, videoID) ==
    [i \in 1..Len(items) |->
        IF items[i].ID = videoID /\ \A j \in 1..(i - 1) : items[j].ID # videoID
        THEN [items[i] EXCEPT !.watched = TRUE] ELSE items[i]]

\* ui.go 323-333
MainUpdateVideoWatched ==
    \E msg \in BagToSet(msgs) :
        /\ view = "main" /\ msg.type = "videoWatchedMsg"
        /\ Receive(msg)
        /\ mainModel' = [mainModel EXCEPT !.items = SetWatched(@, msg.arg)]
        /\ UNCHANGED <<vars, ttl, watchedVideos, played, view, subModel, cmds>>

\* ui.go 232 and 335-337: a message of the subscription view that arrives on
\* the main view meets no case (returnToMainMsg is sent by neither view)
MainUpdateOther ==
    \E msg \in BagToSet(msgs) :
        /\ view = "main"
        /\ msg.type \in {"subscriptionsMsg", "unsubscribedMsg", "loadMainViewMsg"}
        /\ Receive(msg)
        /\ UNCHANGED <<vars, ttl, watchedVideos, played, view, mainModel, subModel, cmds>>

----------------------------------------------------------------------------
(* The subscription view: SubscriptionModel.Update, part_001 87-242 *)

\* what one key message may carry: a blank, or the characters of an ID
\* (pasted)
Runes == {" ", "UC1"}

\* textinput.CharLimit, 50 in the code (part_001 53), counted in key messages
CharLimit == 2

\* m.channelInput.Value(): the text of the key messages, one after another
RECURSIVE Value(_)
Value(input) == IF input = <<>> THEN "" ELSE Head(input) \o Value(Tail(input))

TrimSpaceKept(input) == input

\* strings.TrimSpace on the key messages of an input
TrimSpace(input) ==
    LET solid == {i \in 1..Len(input) : input[i] # " "}
    IN  IF solid = {} THEN <<>>
        ELSE SubSeq(input, CHOOSE i \in solid : \A j \in solid : i <= j,
                           CHOOSE i \in solid : \A j \in solid : i >= j)

\* part_001 100-104
SubKeyEsc ==
    /\ view = "subs" /\ subModel.addMode
    /\ subModel' = [subModel EXCEPT !.addMode = FALSE, !.addError = ""]
    /\ UNCHANGED <<vars, ttl, watchedVideos, played, view, mainModel, cmds, msgs>>

\* part_001 106-132
SubKeyEnter ==
    /\ view = "subs" /\ subModel.addMode
    /\ IF Value(TrimSpace(subModel.channelInput)) = ""
       THEN /\ subModel' = [subModel EXCEPT !.addError = "Channel ID cannot be empty"]
            /\ UNCHANGED cmds
       ELSE /\ subModel' = [subModel EXCEPT !.addMode = FALSE, !.loading = TRUE,
                               !.addError = ""]
            /\ Start(Cmd("add", "AddSubscription",
                         Value(TrimSpace(subModel.channelInput))))
    /\ UNCHANGED <<vars, ttl, watchedVideos, played, view, mainModel, msgs>>

\* part_001 135-138: any other key goes to the text input, which takes no
\* more than CharLimit
SubKeyInput ==
    \E runes \in Runes :
        /\ view = "subs" /\ subModel.addMode
        /\ subModel' = [subModel EXCEPT !.channelInput =
                           IF Len(@) < CharLimit THEN Append(@, runes) ELSE @]
        /\ UNCHANGED <<vars, ttl, watchedVideos, played, view, mainModel, cmds, msgs>>

\* part_001 146-150: the main view replaces the subscription view, whose
\* SubscriptionModel is dropped
SubKeyBack ==
    /\ view = "subs" /\ ~subModel.addMode
    /\ view' = "main"
    /\ mainModel' = NewModel
    /\ subModel' = NewSubscriptionModel
    /\ Start(Cmd("loadMainView", "loadMainViewMsg", ""))
    /\ UNCHANGED <<vars, ttl, watchedVideos, played, msgs>>

\* part_001 152-157
SubKeyAdd ==
    /\ view = "subs" /\ ~subModel.addMode
    /\ subModel' = [subModel EXCEPT !.addMode = TRUE, !.channelInput = <<>>]
    /\ UNCHANGED <<vars, ttl, watchedVideos, played, view, mainModel, cmds, msgs>>

\* part_001 159-167
SubKeyUp ==
    /\ view = "subs" /\ ~subModel.addMode
    /\ subModel' = [subModel EXCEPT !.cursor = IF @ > 0 THEN @ - 1 ELSE @]
    /\ UNCHANGED <<vars, ttl, watchedVideos, played, view, mainModel, cmds, msgs>>

SubKeyDown ==
    /\ view = "subs" /\ ~subModel.addMode
    /\ subModel' = [subModel EXCEPT !.cursor =
                       IF @ < Len(subModel.subscriptions) - 1 THEN @ + 1 ELSE @]
    /\ UNCHANGED <<vars, ttl, watchedVideos, played, view, mainModel, cmds, msgs>>

\* part_001 188-193 and 224-229
ClampCursor(cursor, n) ==
    IF cursor >= n THEN (IF n - 1 < 0 THEN 0 ELSE n - 1) ELSE cursor

\* part_001 179 and 187: the step of pgup and pgdown
PageStep == 10

\* part_001 169-170
SubKeyHome ==
    /\ view = "subs" /\ ~subModel.addMode
    /\ subModel' = [subModel EXCEPT !.cursor = 0]
    /\ UNCHANGED <<vars, ttl, watchedVideos, played, view, mainModel, cmds, msgs>>

\* part_001 172-176
SubKeyEnd ==
    /\ view = "subs" /\ ~subModel.addMode
    /\ subModel' = [subModel EXCEPT !.cursor =
                       IF Len(subModel.subscriptions) - 1 < 0 THEN 0
                       ELSE Len(subModel.subscriptions) - 1]
    /\ UNCHANGED <<vars, ttl, watchedVideos, played, view, mainModel, cmds, msgs>>

\* part_001 178-183
SubKeyPgUp ==
    /\ view = "subs" /\ ~subModel.addMode
    /\ subModel' = [subModel EXCEPT !.cursor =
                       IF @ - PageStep < 0 THEN 0 ELSE @ - PageStep]
    /\ UNCHANGED <<vars, ttl, watchedVideos, played, view, mainModel, cmds, msgs>>

\* part_001 185-193: the same adjustment as lines 224-229
SubKeyPgDown ==
    /\ view = "subs" /\ ~subModel.addMode
    /\ subModel' = [subModel EXCEPT !.cursor =
                       ClampCursor(@ + PageStep, Len(subModel.subscriptions))]
    /\ UNCHANGED <<vars, ttl, watchedVideos, played, view, mainModel, cmds, msgs>>

\* part_001 195-207: the cursor counts from 0
SubKeyDelete ==
    /\ view = "subs" /\ ~subModel.addMode
    /\ IF Len(subModel.subscriptions) > 0 /\ subModel.cursor < Len(subModel.subscriptions)
       THEN Start(Cmd("remove", "RemoveSubscription",
                      subModel.subscriptions[subModel.cursor + 1].ID))
       ELSE UNCHANGED cmds
    /\ UNCHANGED <<vars, ttl, watchedVideos, played, view, mainModel, subModel, msgs>>

\* part_001 209-211
SubUpdateSubscriptions ==
    \E msg \in BagToSet(msgs) :
        /\ view = "subs" /\ msg.type = "subscriptionsMsg"
        /\ Receive(msg)
        /\ subModel' = [subModel EXCEPT !.subscriptions = msg.subscriptions,
                           !.loading = FALSE]
        /\ UNCHANGED <<vars, ttl, watchedVideos, played, view, mainModel, cmds>>

\* part_001 213-229
SubUpdateUnsubscribed ==
    \E msg \in BagToSet(msgs) :
        /\ view = "subs" /\ msg.type = "unsubscribedMsg"
        /\ Receive(msg)
        /\ \E newSubscriptions \in
                {SelectSeq(subModel.subscriptions, LAMBDA sub : sub.ID # msg.arg)} :
              subModel' = [subModel EXCEPT !.subscriptions = newSubscriptions,
                              !.cursor = ClampCursor(@, Len(newSubscriptions))]
        /\ UNCHANGED <<vars, ttl, watchedVideos, played, view, mainModel, cmds>>

\* part_001 231-233
SubUpdateErr ==
    \E msg \in BagToSet(msgs) :
        /\ view = "subs" /\ msg.type = "errMsg"
        /\ Receive(msg)
        /\ subModel' = [subModel EXCEPT !.err = msg.arg, !.loading = FALSE]
        /\ UNCHANGED <<vars, ttl, watchedVideos, played, view, mainModel, cmds>>

\* part_001 91 and 241: a message of the main view that arrives on the
\* subscription view meets no case
SubUpdateOther ==
    \E msg \in BagToSet(msgs) :
        /\ view = "subs"
        /\ msg.type \in {"videosMsg", "videoWatchedMsg", "loadMainViewMsg"}
        /\ Receive(msg)
        /\ UNCHANGED <<vars, ttl, watchedVideos, played, view, mainModel, subModel, cmds>>

----------------------------------------------------------------------------
(* The program *)

\* part_000 14-43: the program at its start, on a configuration that lists
\* channels and a watched store that is one of stores, left by earlier runs
\* in which every video of the store has been played
InitProgram(channels, stores) ==
    /\ subscribedChannels = channels
    /\ persisted = subscribedChannels
    /\ cachedSubscriptions = <<>>
    /\ channelCache = EmptyMap
    /\ videoCache = EmptyMap
    /\ lastFetchTime = 0
    /\ now = 1
    /\ ret = Ret("NewClient", "", NoErr)
    /\ rebuilt = 0
    /\ ttl = NewClientCacheDuration(cacheDuration)
    /\ watchedVideos \in stores
    /\ played = watchedVideos
    /\ NewAppModel
    /\ waiting = NoCall

\* the program of a user who subscribes to UC1 and UC2 and has watched b1 or
\* nothing
InitApp == InitProgram(<<"UC1", "UC2">>, SUBSET {"b1"})

NextApp ==
    \/ Program(Quit)
    \/ Program(MainKeySubscriptions)
    \/ Program(MainKeyReload)
    \/ Program(MainKeyForceReload)
    \/ Program(MainKeyEnter)
    \/ Program(MainUpdateVideos)
    \/ Program(MainUpdateErr)
    \/ Program(MainUpdateVideoWatched)
    \/ Program(MainUpdateOther)
    \/ Program(SubKeyEsc)
    \/ Program(SubKeyEnter)
    \/ Program(SubKeyInput)
    \/ Program(SubKeyBack)
    \/ Program(SubKeyAdd)
    \/ Program(SubKeyUp)
    \/ Program(SubKeyDown)
    \/ Program(SubKeyDelete)
    \/ Program(SubUpdateSubscriptions)
    \/ Program(SubUpdateUnsubscribed)
    \/ Program(SubUpdateErr)
    \/ Program(SubUpdateOther)
    \/ Program(RunFetchVideos)
    \/ Program(RunMarkVideoAsWatched)
    \/ Program(RunPlayVideo)
    \/ Program(RunGetSubscriptionInfo)
    \/ Program(RunAddSubscription)
    \/ Program(RunRemoveSubscription)
    \/ Program(RunLoadMainView)

\* the program under every key and message
SpecApp == InitApp /\ [][NextApp]_allVars

\* The main view by itself: the program of a user who reloads, force-reloads
\* and plays, and never opens the subscription view
NextMain ==
    \/ Program(Quit)
    \/ Program(MainKeyReload)
    \/ Program(MainKeyForceReload)
    \/ Program(MainKeyEnter)
    \/ Program(MainUpdateVideos)
    \/ Program(MainUpdateErr)
    \/ Program(MainUpdateVideoWatched)
    \/ Program(RunFetchVideos)
    \/ Program(RunMarkVideoAsWatched)
    \/ Program(RunPlayVideo)

\* the user subscribes to UC2 alone
InitMain == InitProgram(<<"UC2">>, SUBSET {"b1"})

SpecMain == InitMain /\ [][NextMain]_allVars

\* The subscription view by itself: the program of a user who subscribes to
\* UC2 alone, opens the subscription view (ui.go 243-246) and stays there.
\* The fetch of Model.Init has failed at its first request and has left the
\* client as it was, and its errMsg has been taken by the main view before
\* the key s; from then on the network and the disk work
InitSubs ==
    /\ subscribedChannels = <<"UC2">>
    /\ persisted = subscribedChannels
    /\ cachedSubscriptions = <<>>
    /\ channelCache = EmptyMap
    /\ videoCache = EmptyMap
    /\ lastFetchTime = 0
    /\ now = 1
    /\ ret = [Ret("GetLatestVideos", "", "error fetching channels") EXCEPT
                 !.metaCalls = 1, !.failedAt = 1, !.metaErr = TRUE,
                 !.batches = <<subscribedChannels>>]
    /\ rebuilt = 0
    /\ ttl = NewClientCacheDuration(cacheDuration)
    /\ watchedVideos = {}
    /\ played = {}
    /\ view = "subs"
    /\ mainModel = NewModel
    /\ subModel = NewSubscriptionModel
    /\ cmds = SetToBag({fetchSubscriptions})
    /\ msgs = EmptyBag
    /\ waiting = NoCall

\* the errors of a request that fails and of a file that cannot be written
\* (client.go 200, 258-261, 314, 336-341)
Faults ==
    {"error fetching channel info", "error checking channel",
     "error saving config", "error writing updated config"}

\* a step of the program while the network and the disk work
Working(A) == Program(A) /\ ret'.err \notin Faults

NextSubs ==
    \/ Working(Quit)
    \/ Working(SubKeyEsc)
    \/ Working(SubKeyEnter)
    \/ Working(SubKeyInput)
    \/ Working(SubKeyAdd)
    \/ Working(SubKeyUp)
    \/ Working(SubKeyDown)
    \/ Working(SubKeyHome)
    \/ Working(SubKeyEnd)
    \/ Working(SubKeyPgUp)
    \/ Working(SubKeyPgDown)
    \/ Working(SubKeyDelete)
    \/ Working(SubUpdateSubscriptions)
    \/ Working(SubUpdateUnsubscribed)
    \/ Working(SubUpdateErr)
    \/ Working(RunInfoLoop)
    \/ Working(RunInfoStore)
    \/ Working(RunAddSubscription)
    \/ Working(RunRemoveSubscription)

SpecSubs == InitSubs /\ [][NextSubs]_allVars

----------------------------------------------------------------------------
(* The configuration file *)

\* config.json as the user has written it: a record of the settings it names
ConfigFiles ==
    {[subscriptions |-> <<"UC1", "UC2", "ch3">>],
     [subscriptions |-> <<"UC1", "UC2", "ch3">>, cache_duration |-> cacheDuration]}

\* styles.go 88-99: json.Unmarshal into a zero Config leaves a setting the
\* file does not name at its zero value, and LoadConfig returns the Config as
\* it is; cfg.CacheDuration is what main passes on (part_000 29-35)
LoadConfig(file) ==
    [Subscriptions |-> file.subscriptions,
     CacheDuration |-> IF "cache_duration" \in DOMAIN file
                       THEN file.cache_duration ELSE 0]

\* part_000 14-35 and NewClient: the client of a configuration file
InitConfigured(file) ==
    /\ subscribedChannels = LoadConfig(file).Subscriptions
    /\ persisted = subscribedChannels
    /\ cachedSubscriptions = <<>>
    /\ channelCache = EmptyMap
    /\ videoCache = EmptyMap
    /\ lastFetchTime = 0
    /\ now = 1
    /\ ret = Ret("NewClient", "", NoErr)
    /\ rebuilt = 0
    /\ ttl = NewClientCacheDuration(LoadConfig(file).CacheDuration)
    /\ watchedVideos = {}
    /\ played = {}
    /\ NewAppModel
    /\ waiting = NoCall

\* the file gives no cache_duration
InitUnconfigured ==
    \E file \in ConfigFiles :
        "cache_duration" \notin DOMAIN file /\ InitConfigured(file)

SpecUnconfigured == InitUnconfigured /\ [][NextVideo]_allVars

----------------------------------------------------------------------------
(* Remote calls and their deadlines *)

\* the methods that call the remote
CallOps == {"GetLatestVideos", "GetSubscriptionInfo", "AddSubscription"}

\* the remote calls of each: Channels.List(contentDetails) (lines 431-434),
\* PlaylistItems.List (445-449) and the Channels.List(snippet) of
\* GetChannelNamesForIDs (576-579) in a rebuild; Channels.List(snippet,
\* statistics) (190-193); the Channels.List(snippet) of the validation
\* (309-312)
RemoteCalls(op) ==
    CASE op = "GetLatestVideos" -> {"contentDetails", "playlistItems", "names"}
      [] op = "GetSubscriptionInfo" -> {"info"}
      [] op = "AddSubscription" -> {"validate"}

\* the calls made with .Context(ctx), ctx of context.WithTimeout(10 s): lines
\* 188-193 and 305-312. The three calls of a rebuild end in .Do() with no
\* context.
WithTimeout(call) == call \in {"info", "validate"}

\* op, called in this state, calls the remote: a rebuild of a list that is not
\* empty (lines 99, 118), a subscription-info miss (175-182), every
\* AddSubscription
IssuesCall(op) ==
    CASE op = "GetLatestVideos" ->
             ~CacheValid(lastFetchTime, now) /\ Len(subscribedChannels) > 0
      [] op = "GetSubscriptionInfo" ->
             Len(cachedSubscriptions) = 0 /\ Len(subscribedChannels) > 0
      [] op = "AddSubscription" -> TRUE

\* what a call returns when its context expires first: lines 200-201, 314-316
DeadlineError(call) ==
    CASE call = "info" -> "error fetching channel info"
      [] call = "validate" -> "error checking channel"
      [] OTHER -> "context deadline exceeded"

\* op runs to its return
Returns(op) ==
    \/ op = "GetLatestVideos" /\ GetLatestVideos
    \/ op = "GetSubscriptionInfo" /\ GetSubscriptionInfo
    \/ op = "AddSubscription" /\ AddToggled

\* a method is called and is blocked in one of its remote calls
Issue ==
    /\ waiting = NoCall
    /\ \E op \in CallOps :
         /\ IssuesCall(op)
         /\ \E call \in RemoteCalls(op) :
              waiting' = [op |-> op, call |-> call, deadline |-> WithTimeout(call)]
    /\ UNCHANGED <<vars, appVars>>

\* the remote answers, and the method runs on to its return
Answered ==
    /\ waiting # NoCall
    /\ Returns(waiting.op)
    /\ waiting' = NoCall
    /\ UNCHANGED appVars

\* the context of the call expires, Do returns its error and the method
\* returns it
DeadlineExceeded ==
    /\ waiting # NoCall
    /\ waiting.deadline
    /\ Returns(waiting.op)
    /\ ret'.err = DeadlineError(waiting.call)
    /\ waiting' = NoCall
    /\ UNCHANGED appVars

\* a call that needs no remote call returns at once
Immediate ==
    /\ waiting = NoCall
    /\ \E op \in CallOps : ~IssuesCall(op) /\ Returns(op)
    /\ UNCHANGED <<appVars, waiting>>

\* between two calls of the client
Idle(A) == waiting = NoCall /\ Client(A)

NextCalls ==
    \/ Issue
    \/ Answered
    \/ DeadlineExceeded
    \/ Immediate
    \/ Idle(ClearVideoCache)
    \/ Idle(RemoveToggled)
    \/ Client(Tick)

\* the user subscribes to UC2, and subscribes to and unsubscribes from UC1
InitCalls == Init /\ subscribedChannels = <<"UC2">>

\* The client, one call at a time, with a remote that may never answer: the
\* one thing sure to happen is that the timer of a context fires
SpecCalls == InitCalls /\ [][NextCalls]_allVars /\ WF_allVars(DeadlineExceeded)

----------------------------------------------------------------------------
(* Properties *)

\* the step is a call of op: every call leaves its record in ret, and the
\* clock moves only between calls
Called(op) == ret'.op = op /\ now' = now

Descending(vs) == \A i \in 1..(Len(vs) - 1) : vs[i].PublishedAt >= vs[i + 1].PublishedAt

\* the channel that uploaded the video
UploadedBy(c) ==
    UNION {{Uploads(n, c)[i].ID : i \in 1..Len(Uploads(n, c))} : n \in 1..NumSnapshots}

Owner == [videoID \in UNION {UploadedBy(c) : c \in Channels} |->
             CHOOSE c \in Channels : videoID \in UploadedBy(c)]

OwnerOf(videoID) == Owner[videoID]

VideosOf(vs, c) == SelectSeq(vs, LAMBDA v : OwnerOf(v.ID) = c)

ClientState == <<subscribedChannels, persisted, cachedSubscriptions, channelCache,
                 videoCache, lastFetchTime, now, rebuilt>>

\* C1: a GetLatestVideos called while lastFetchTime is non-zero and
\* now - lastFetchTime < cacheDuration issues no remote call and leaves
\* videoCache, lastFetchTime and channelCache as they are; one called when
\* now - lastFetchTime >= cacheDuration is a miss.
C1_HitIsSilent ==
    [][Called("GetLatestVideos") =>
        /\ (lastFetchTime # 0 /\ now - lastFetchTime < cacheDuration) =>
              /\ ret'.hit /\ ret'.err = NoErr
              /\ ret'.metaCalls = 0 /\ ret'.nameCalls = 0 /\ ret'.feedCalls = 0
              /\ UNCHANGED <<videoCache, lastFetchTime, channelCache>>
        /\ (now - lastFetchTime >= cacheDuration) => ~ret'.hit]_vars

\* a hit one tick after the rebuild, on a cache that holds videos
C1_Witness ==
    /\ ret.op = "GetLatestVideos" /\ ret.hit /\ Len(ret.videos) > 0
    /\ now = lastFetchTime + 1

\* C2: a GetLatestVideos served from the cache returns the videos the
\* rebuild before it returned, the same identifiers in the same order (here:
\* the rebuild is the call before, only time has passed in between).
C2_HitRepeatsRebuild ==
    [][(/\ ret.op = "GetLatestVideos" /\ ~ret.hit /\ ret.err = NoErr
        /\ Called("GetLatestVideos") /\ ret'.hit)
       => VideoIDs(ret'.videos) = VideoIDs(ret.videos)]_vars

\* C2: a GetLatestVideos served from the cache returns the videos the
\* successful rebuild before it returned; stated for the set of identifiers
\* alone (the order of videos of one publication time left aside), which
\* "identical by identifier and order" implies
C2_HitRepeatsRebuildSet ==
    [][(/\ ret.op = "GetLatestVideos" /\ ~ret.hit /\ ret.err = NoErr
        /\ Called("GetLatestVideos") /\ ret'.hit)
       => Range(VideoIDs(ret'.videos)) = Range(VideoIDs(ret.videos))]_vars

\* C3: the GetLatestVideos that follows ClearVideoCache takes the miss path
\* and fetches over the whole subscription list: a metadata call for every
\* batch and a feed call for every channel the metadata responses hold, up to
\* the first batch whose metadata call fails.
C3_ClearForcesFetch ==
    [][(ret.op = "ClearVideoCache" /\ Called("GetLatestVideos")) =>
        /\ ~ret'.hit
        /\ ret'.err = NoErr =>
              /\ ret'.metaCalls = CeilDiv(Len(subscribedChannels), BatchSize)
              /\ ret'.feedCalls + Cardinality(ret'.absent) = Len(subscribedChannels)
        /\ ret'.err # NoErr => ret'.metaCalls = ret'.failedAt]_vars

\* the cache is cleared at the very time it was populated
C3_Witness ==
    /\ ret.op = "ClearVideoCache" /\ rebuilt = now /\ Len(subscribedChannels) > BatchSize

\* C4: a rebuild in which a batch's metadata call fails returns an error and
\* no video, attempts no later batch and leaves lastFetchTime as it was; and
\* lastFetchTime is always zero or the time of the last successful rebuild.
C4_FailedRebuildKeepsTime ==
    /\ [][(Called("GetLatestVideos") /\ ret'.failedAt # 0) =>
            /\ ret'.err # NoErr /\ ret'.videos = <<>>
            /\ ret'.metaCalls = ret'.failedAt
            /\ lastFetchTime' = lastFetchTime]_vars
    /\ [](lastFetchTime = 0 \/ lastFetchTime = rebuilt)

\* the second batch fails after an earlier rebuild has succeeded, at a later time
C4_Witness ==
    /\ ret.op = "GetLatestVideos" /\ ret.failedAt = 2
    /\ lastFetchTime # 0 /\ lastFetchTime < now

\* C5: the videos GetLatestVideos returns, from the cache or from a rebuild,
\* are in descending order of PublishedAt.
C5_Sorted == ret.op = "GetLatestVideos" => Descending(ret.videos)

\* a cache hit that returns videos of three publication times
C5_Witness ==
    /\ ret.op = "GetLatestVideos" /\ ret.hit
    /\ Cardinality({ret.videos[i].PublishedAt : i \in 1..Len(ret.videos)}) >= 3

\* C6: a successful rebuild returns no video named by the raw ID of a
\* subscribed channel whose name was not cached before the call.
C6_NoRawID ==
    [][(Called("GetLatestVideos") /\ ~ret'.hit /\ ret'.err = NoErr) =>
        \A c \in Range(subscribedChannels) \ DOMAIN channelCache :
            \A i \in 1..Len(ret'.videos) : ret'.videos[i].ChannelName # c]_vars

\* C6 as amended: the same when the follow-up name-resolve call of the
\* channel's batch succeeds and returns the channel, so that its name is in
\* the name cache after the call; its videos then carry that name.
C6_NoRawIDWhenResolved ==
    [][(Called("GetLatestVideos") /\ ~ret'.hit /\ ret'.err = NoErr) =>
        \A c \in (Range(subscribedChannels) \ DOMAIN channelCache) \cap DOMAIN channelCache' :
            \A i \in 1..Len(ret'.videos) :
                /\ ret'.videos[i].ChannelName # c
                /\ OwnerOf(ret'.videos[i].ID) = c =>
                      ret'.videos[i].ChannelName = channelCache'[c]]_vars

\* a rebuild that has resolved the name of UC1 and returns its videos
C6_Witness ==
    /\ ret.op = "GetLatestVideos" /\ ~ret.hit /\ ret.err = NoErr /\ ret.nameCalls > 0
    /\ \E i \in 1..Len(ret.videos) : ret.videos[i].ChannelName = "Alpha"

\* C7: a successful rebuild over N channels issues ceil(N / BatchSize)
\* Channels.List calls, those of the name backfill counted.
C7_ListCalls ==
    (ret.op = "GetLatestVideos" /\ ~ret.hit /\ ret.err = NoErr) =>
        ret.metaCalls + ret.nameCalls = CeilDiv(Len(subscribedChannels), BatchSize)

\* C7 as amended: it issues ceil(N / BatchSize) metadata calls and at most one
\* name-backfill call for each batch.
C7_MetaCalls ==
    (ret.op = "GetLatestVideos" /\ ~ret.hit /\ ret.err = NoErr) =>
        /\ ret.metaCalls = CeilDiv(Len(subscribedChannels), BatchSize)
        /\ ret.nameCalls <= ret.metaCalls

\* a rebuild over more than one batch with a name-backfill call
C7_Witness ==
    /\ ret.op = "GetLatestVideos" /\ ~ret.hit /\ ret.err = NoErr
    /\ ret.metaCalls > 1 /\ ret.nameCalls > 0

\* C8: a rebuild fails only when a batch's metadata call fails; in a rebuild
\* that succeeds, a channel whose feed call fails or that the metadata
\* response leaves out is skipped (no video of it is returned, its cache entry
\* stays), and every other channel's videos are returned and cached.
C8_ChannelSkipped ==
    [][(Called("GetLatestVideos") /\ ~ret'.hit) =>
        /\ ret'.err # NoErr <=> ret'.failedAt # 0
        /\ ret'.err = NoErr =>
              \A c \in Range(subscribedChannels) :
                 IF c \in ret'.absent \cup ret'.failed
                 THEN /\ VideosOf(ret'.videos, c) = <<>>
                      /\ (c \in DOMAIN videoCache' <=> c \in DOMAIN videoCache)
                      /\ c \in DOMAIN videoCache => videoCache'[c] = videoCache[c]
                 ELSE /\ VideosOf(ret'.videos, c) # <<>>
                      /\ c \in DOMAIN videoCache'
                      /\ Range(videoCache'[c]) = Range(VideosOf(ret'.videos, c))]_vars

\* a rebuild succeeds and returns videos although a feed call has failed
C8_Witness ==
    /\ ret.op = "GetLatestVideos" /\ ~ret.hit /\ ret.err = NoErr
    /\ ret.failed # {} /\ Len(ret.videos) > 0

\* C9: AddSubscription(X) with X in the list (a successful AddSubscription(X)
\* puts it there, and only RemoveSubscription(X) takes it out) returns the
\* duplicate error and leaves the list, the subscription-info cache and the
\* file as they are.
C9_DuplicateError ==
    [][(Called("AddSubscription") /\ ret'.arg \in Range(subscribedChannels)) =>
        /\ ret'.err = "already subscribed to this channel"
        /\ UNCHANGED <<subscribedChannels, cachedSubscriptions, persisted>>]_vars

\* C9 as amended: it returns an error and leaves the three as they are; the
\* error is the duplicate error when the validation call reports X as
\* existing, and the validation's own error otherwise.
C9_DuplicateRejected ==
    /\ [][(Called("AddSubscription") /\ ret'.arg \in Range(subscribedChannels)) =>
            /\ ret'.err = (CASE ret'.remote = "ok" -> "already subscribed to this channel"
                             [] ret'.remote = "none" -> "channel not found"
                             [] ret'.remote = "err" -> "error checking channel")
            /\ UNCHANGED <<subscribedChannels, cachedSubscriptions, persisted>>]_vars
    /\ [][(Called("AddSubscription") /\ ret'.err = NoErr) =>
            ret'.arg \in Range(subscribedChannels')]_vars
    /\ [][\A c \in Range(subscribedChannels) \ Range(subscribedChannels') :
            Called("RemoveSubscription") /\ ret'.arg = c]_vars

\* the duplicate is rejected while the subscription-info cache is populated
C9_Witness ==
    /\ ret.op = "AddSubscription" /\ ret.err = "already subscribed to this channel"
    /\ cachedSubscriptions # <<>> /\ persisted = subscribedChannels

\* C10: AddSubscription(X) for an X the remote reports as not existing
\* returns the not-found error and changes nothing of the client or the file.
C10_NotFound ==
    [][(Called("AddSubscription") /\ ret'.remote = "none") =>
        /\ ret'.err = "channel not found"
        /\ UNCHANGED ClientState]_vars

\* an unknown channel that is not in the list is rejected while the
\* subscription-info cache is populated
C10_Witness ==
    /\ ret.op = "AddSubscription" /\ ret.remote = "none" /\ ret.err = "channel not found"
    /\ ret.arg \notin Range(subscribedChannels) /\ cachedSubscriptions # <<>>

\* C11: RemoveSubscription(Y) for a Y that is not in the subscription list
\* returns the not-found error and leaves the list, the subscription-info
\* cache and the file as they are.
C11_RemoveAbsent ==
    [][(Called("RemoveSubscription") /\ ret'.arg \notin Range(subscribedChannels)) =>
        /\ ret'.err = "channel not found in subscriptions"
        /\ UNCHANGED <<subscribedChannels, cachedSubscriptions, persisted>>]_vars

\* an absent channel is refused while the list and the subscription-info
\* cache hold other channels
C11_Witness ==
    /\ ret.op = "RemoveSubscription" /\ ret.err = "channel not found in subscriptions"
    /\ ret.arg \notin Range(subscribedChannels)
    /\ subscribedChannels # <<>> /\ cachedSubscriptions # <<>>

\* C12: AddSubscription(X) for an X the validation call reports as existing
\* and that is not in the list appends X as the last element, the elements
\* before it as they were, empties the subscription-info cache and writes the
\* list to the file: the call returns nil or the error of the write, and the
\* file holds the updated list when the write has succeeded.
C12_AddAppends ==
    [][(/\ Called("AddSubscription") /\ ret'.remote = "ok"
        /\ ret'.arg \notin Range(subscribedChannels)) =>
        /\ Len(subscribedChannels') = Len(subscribedChannels) + 1
        /\ subscribedChannels'[Len(subscribedChannels')] = ret'.arg
        /\ SubSeq(subscribedChannels', 1, Len(subscribedChannels)) = subscribedChannels
        /\ cachedSubscriptions' = <<>>
        /\ ret'.err \in {NoErr, "error saving config"}
        /\ ret'.err = NoErr => persisted' = subscribedChannels'
        /\ ret'.err # NoErr => persisted' = persisted]_vars

\* a channel has been added behind two others and the file holds the three
C12_Witness ==
    /\ ret.op = "AddSubscription" /\ ret.err = NoErr /\ ret.remote = "ok"
    /\ Len(subscribedChannels) >= 3
    /\ subscribedChannels[Len(subscribedChannels)] = ret.arg
    /\ persisted = subscribedChannels /\ cachedSubscriptions = <<>>

\* C13: RemoveSubscription(X) for an X in the list removes X and keeps the
\* other IDs in their order, empties the subscription-info cache and writes
\* the list to the file (the file holds the updated list when the write has
\* succeeded); afterwards X is not in the list.
C13_RemoveRemoves ==
    [][(Called("RemoveSubscription") /\ ret'.arg \in Range(subscribedChannels)) =>
        /\ SelectSeq(subscribedChannels', LAMBDA c : c # ret'.arg)
              = SelectSeq(subscribedChannels, LAMBDA c : c # ret'.arg)
        /\ cachedSubscriptions' = <<>>
        /\ ret'.err \in {NoErr, "error writing updated config"}
        /\ ret'.err = NoErr => persisted' = subscribedChannels'
        /\ ret'.arg \notin Range(subscribedChannels')]_vars

\* the errors of a configuration write that has failed
SaveErrors == {"error saving config", "error writing updated config"}

\* C14: an AddSubscription or RemoveSubscription whose configuration write
\* fails returns an error with the list already changed and the
\* subscription-info cache already emptied, and the list differs from the file.
C14_FailedWriteDiffers ==
    [][((Called("AddSubscription") \/ Called("RemoveSubscription"))
        /\ ret'.err \in SaveErrors) =>
        /\ subscribedChannels' # subscribedChannels
        /\ cachedSubscriptions' = <<>>
        /\ subscribedChannels' # persisted']_vars

\* C14 as amended: the list has changed (X appended, or its first occurrence
\* cut out), the cache is emptied and the file is as it was before the call;
\* the list differs from the file when the two agreed before the call.
C14_FailedWriteKeepsMutation ==
    [][((Called("AddSubscription") \/ Called("RemoveSubscription"))
        /\ ret'.err \in SaveErrors) =>
        /\ ret'.op = "AddSubscription" =>
              subscribedChannels' = subscribedChannels \o <<ret'.arg>>
        /\ ret'.op = "RemoveSubscription" =>
              \E i \in 1..Len(subscribedChannels) :
                 /\ subscribedChannels[i] = ret'.arg
                 /\ subscribedChannels' = SubSeq(subscribedChannels, 1, i - 1)
                       \o SubSeq(subscribedChannels, i + 1, Len(subscribedChannels))
        /\ cachedSubscriptions' = <<>>
        /\ persisted' = persisted
        /\ persisted = subscribedChannels => subscribedChannels' # persisted']_vars

\* a removal whose write has failed: the file still names the channel
C14_Witness ==
    /\ ret.op = "RemoveSubscription" /\ ret.err = "error writing updated config"
    /\ ret.arg \in Range(persisted) /\ ret.arg \notin Range(subscribedChannels)
    /\ cachedSubscriptions = <<>>

\* C15: AddSubscription and RemoveSubscription, succeeding or failing, leave
\* every entry of the video cache and lastFetchTime as they are; the
\* GetLatestVideos that follows one of them within the cache duration is
\* served from the cache: no remote call, the videos of the entries the cache
\* held before the change of the list.
C15_RegistryKeepsVideoCache ==
    /\ [][(Called("AddSubscription") \/ Called("RemoveSubscription")) =>
            UNCHANGED <<videoCache, lastFetchTime>>]_vars
    /\ [][(/\ ret.op \in {"AddSubscription", "RemoveSubscription"}
            /\ Called("GetLatestVideos")
            /\ lastFetchTime # 0 /\ now - lastFetchTime < cacheDuration) =>
            /\ ret'.hit /\ ret'.err = NoErr
            /\ ret'.metaCalls = 0 /\ ret'.nameCalls = 0 /\ ret'.feedCalls = 0
            /\ Range(ret'.videos) = Range(CachedVideos(videoCache))
            /\ UNCHANGED <<videoCache, lastFetchTime>>]_vars

\* a cache hit returns the videos of UC1 after UC1 has been unsubscribed
C15_Witness ==
    /\ ret.op = "GetLatestVideos" /\ ret.hit
    /\ "UC1" \notin Range(subscribedChannels)
    /\ VideosOf(ret.videos, "UC1") # <<>>

\* C16: a GetSubscriptionInfo called after one that has returned without
\* error, no successful AddSubscription or RemoveSubscription in between
\* (here: it is the very next call), issues no remote call and returns the
\* same sequence, whatever that sequence is (the empty one included). The
\* sequence a call returns without error is the cache as the call leaves it.
C16_InfoRepeats ==
    [][(/\ ret.op = "GetSubscriptionInfo" /\ ret.err = NoErr
        /\ Called("GetSubscriptionInfo")) =>
        /\ ret'.err = NoErr
        /\ ret'.infoCalls = 0
        /\ cachedSubscriptions' = cachedSubscriptions]_vars

\* C17: a GetSubscriptionInfo that finds the cache unpopulated fails without
\* a remote call when the list is empty; otherwise it issues one call for
\* each subscribed ID in turn, and the first call that fails ends it with an
\* error and the cache still unpopulated; when none fails the cache holds one
\* entry for each ID the remote has answered for.
C17_InfoMiss ==
    [][(Called("GetSubscriptionInfo") /\ Len(cachedSubscriptions) = 0) =>
        IF subscribedChannels = <<>>
        THEN /\ ret'.err = "no subscriptions found"
             /\ ret'.infoCalls = 0
             /\ cachedSubscriptions' = <<>>
        ELSE IF ret'.failedAt # 0
        THEN /\ ret'.err = "error fetching channel info"
             /\ ret'.infoCalls = ret'.failedAt
             /\ cachedSubscriptions' = <<>>
        ELSE /\ ret'.err = NoErr
             /\ ret'.infoCalls = Len(subscribedChannels)
             /\ Len(cachedSubscriptions') =
                   Len(SelectSeq(subscribedChannels, LAMBDA c : c \notin ret'.absent))
             /\ {cachedSubscriptions'[i].ID : i \in 1..Len(cachedSubscriptions')}
                   = Range(subscribedChannels) \ ret'.absent]_vars

\* the second of three calls has failed and the cache is unpopulated
C17_Witness ==
    /\ ret.op = "GetSubscriptionInfo" /\ ret.err = "error fetching channel info"
    /\ ret.failedAt = 2 /\ ret.infoCalls = 2 /\ Len(subscribedChannels) = 3
    /\ cachedSubscriptions = <<>>

\* the IDs of a resolve call that the name cache does not hold, in the
\* order of the argument
MissingOf(channelIDs, cc) == SelectSeq(channelIDs, LAMBDA c : c \notin DOMAIN cc)

\* C18: a GetChannelNamesForIDs in which a batch request fails returns an
\* error, and the names of the batches before it are in the name cache and in
\* the result; a resolve answers an ID the cache holds from the cache, with
\* requests for the other IDs alone; every name of a result is in the name
\* cache when the call returns, and the cache keeps what it held.
C18_PartialProgressKept ==
    [][Called("GetChannelNamesForIDs") =>
        LET missing == MissingOf(ret'.ids, channelCache)
            done    == Min((ret'.nameCalls - 1) * BatchSize, Len(missing))
        IN  /\ ret'.err # NoErr =>
                  /\ ret'.nameCalls = ret'.failedAt
                  /\ \A i \in 1..done :
                        missing[i] \notin ret'.absent =>
                           /\ missing[i] \in DOMAIN channelCache'
                           /\ missing[i] \in DOMAIN ret'.names
                           /\ channelCache'[missing[i]] \in {ChannelTitle(missing[i]),
                                                         NewTitle(ChannelTitle(missing[i]))}
            /\ \A id \in Range(ret'.ids) \cap DOMAIN channelCache :
                  id \in DOMAIN ret'.names /\ ret'.names[id] = channelCache[id]
            /\ ret'.nameCalls <= CeilDiv(Len(missing), BatchSize)
            /\ \A id \in DOMAIN ret'.names :
                  id \in DOMAIN channelCache' /\ channelCache'[id] = ret'.names[id]
            /\ \A id \in DOMAIN channelCache :
                  id \in DOMAIN channelCache' /\ channelCache'[id] = channelCache[id]]_vars

\* the second batch of a call on three uncached IDs has failed and the two
\* names of the first are in the cache
C18_Witness ==
    /\ ret.op = "GetChannelNamesForIDs" /\ ret.err # NoErr
    /\ Len(ret.ids) = 3 /\ ret.nameCalls = 2
    /\ Cardinality(DOMAIN ret.names) = 2
    /\ DOMAIN ret.names \subseteq DOMAIN channelCache

\* C19: no call removes an entry of the channel-name cache or changes the
\* name it holds for an ID, whatever title the remote reports later.
C19_NameCacheGrows ==
    [][\A id \in DOMAIN channelCache :
          id \in DOMAIN channelCache' /\ channelCache'[id] = channelCache[id]]_vars

\* the cache is cleared while the name cache holds the names of all three
\* channels, one of them a title the remote no longer reports to every call
C19_Witness ==
    /\ ret.op = "ClearVideoCache"
    /\ DOMAIN channelCache = Channels
    /\ \E c \in Channels : channelCache[c] = NewTitle(ChannelTitle(c))
    /\ \E c \in Channels : channelCache[c] = ChannelTitle(c)

\* C20: whatever the client held before, ClearVideoCache leaves the video
\* cache without an entry and lastFetchTime at the zero time, and nothing
\* else changed.
C20_ClearEmpties ==
    [][Called("ClearVideoCache") =>
        /\ DOMAIN videoCache' = {}
        /\ lastFetchTime' = 0
        /\ UNCHANGED <<subscribedChannels, persisted, cachedSubscriptions,
                       channelCache>>]_vars

\* the cache is cleared within the cache duration of a successful rebuild
\* that had filled it
C20_Witness ==
    /\ ret.op = "ClearVideoCache" /\ DOMAIN videoCache = {} /\ lastFetchTime = 0
    /\ rebuilt # 0 /\ now - rebuilt < cacheDuration
    /\ DOMAIN channelCache # {}

\* C21: the handler of f (force reload) leaves every cache of the client
\* empty, the video cache, the channel-name cache and the subscription-info
\* cache, with the command that fetches started and not yet run.
C21_ForceReloadClearsAll ==
    [][Called("ClearVideoCache") =>
        /\ BagIn(fetchVideos, cmds')
        /\ videoCache' = EmptyMap /\ lastFetchTime' = 0
        /\ channelCache' = EmptyMap
        /\ cachedSubscriptions' = <<>>]_vars

\* the calls of the client that read or write its caches and its list
CacheOps == {"GetLatestVideos", "GetSubscriptionInfo", "AddSubscription",
             "RemoveSubscription"}

RECURSIVE CopiesOf(_, _)
\* how many commands of the set S are running
CopiesOf(S, bag) ==
    IF S = {} THEN 0
    ELSE LET c == CHOOSE x \in S : TRUE
         IN  CopiesIn(c, bag) + CopiesOf(S \ {c}, bag)

\* the commands that are at, or on their way to, a call of CacheOps
Fetching == CopiesOf({c \in BagToSet(cmds) : c.pc \in CacheOps}, cmds)

\* C22: at most one command that calls GetLatestVideos, GetSubscriptionInfo,
\* AddSubscription or RemoveSubscription is running at any time, and
\* ClearVideoCache is not called while one is running.
C22_OneAtATime ==
    /\ [](Fetching <= 1)
    /\ [][Called("ClearVideoCache") => Fetching = 0]_vars

\* the program runs and no command of enter is at work
NoPlayback == view # "quit" /\ \A c \in BagToSet(cmds) : c.kind # "play"

\* C23: once the commands of enter have run to their end, the videos of the
\* watched store are those the player has been started on, each marker written
\* for a playback that succeeded and none for one that failed; and an item of
\* the list shows the watched indicator only when the store holds its video.
C23_MarkedWhenPlayed ==
    /\ NoPlayback => watchedVideos = played
    /\ \A i \in 1..Len(mainModel.items) :
          mainModel.items[i].watched => mainModel.items[i].ID \in watchedVideos

\* isWatched(videoID)
IsWatched(store, videoID) == videoID \in GetWatchedVideos(store)

\* C24: a video that is watched stays watched in every later state; the
\* video of a markWatched that has succeeded is watched; and a video becomes
\* watched only by a markWatched of that video that succeeds, so that one
\* never marked is not watched.
C24_WatchedGrows ==
    /\ [][\A v \in DOMAIN Owner :
            /\ IsWatched(watchedVideos, v) => IsWatched(watchedVideos', v)
            /\ (~IsWatched(watchedVideos, v) /\ IsWatched(watchedVideos', v)) =>
                  /\ ret'.op = "MarkVideoAsWatched" /\ ret'.err = NoErr
                  /\ ret'.arg = v]_allVars
    /\ []((ret.op = "MarkVideoAsWatched" /\ ret.err = NoErr) =>
             IsWatched(watchedVideos, ret.arg))

\* b2 has been marked in this run and the list, fetched again since, shows it
\* as watched and b1, never marked, as not watched
C24_Witness ==
    /\ watchedVideos = {"b2"}
    /\ ret.op = "GetLatestVideos"
    /\ mainModel.items = << [ID |-> "b1", watched |-> FALSE],
                            [ID |-> "b2", watched |-> TRUE] >>

\* C25: a GetLatestVideos, GetSubscriptionInfo or AddSubscription that is
\* blocked in a remote call returns in the end, whether the remote answers or
\* not.
C25_EveryCallReturns ==
    /\ (waiting.op = "GetLatestVideos") ~> (waiting = NoCall)
    /\ (waiting.op = "GetSubscriptionInfo") ~> (waiting = NoCall)
    /\ (waiting.op = "AddSubscription") ~> (waiting = NoCall)

\* README.md 136: "The default is 30 minutes."
DefaultCacheDuration == 30

\* C26: with no cache_duration in the configuration, a GetLatestVideos called
\* less than 30 minutes after the last successful rebuild (lastFetchTime is
\* its time) is served from the cache, with no remote call.
C26_DefaultTTL ==
    [][(/\ Called("GetLatestVideos")
        /\ lastFetchTime # 0
        /\ now - lastFetchTime < DefaultCacheDuration) =>
          /\ ret'.hit
          /\ ret'.metaCalls = 0 /\ ret'.nameCalls = 0 /\ ret'.feedCalls = 0]_vars

\* the last call was a GetLatestVideos rebuild that succeeded
JustRebuilt == ret.op = "GetLatestVideos" /\ ~ret.hit /\ ret.err = NoErr

\* C27: a successful rebuild leaves entries in the video cache only for the
\* channels of the subscription list, and the GetLatestVideos that follows
\* it returns no video of a channel that is not in the list (one removed
\* before the rebuild and not added again).
C27_NoRemovedChannel ==
    /\ [][(Called("GetLatestVideos") /\ ~ret'.hit /\ ret'.err = NoErr) =>
            DOMAIN videoCache' \subseteq Range(subscribedChannels)]_vars
    /\ [][(JustRebuilt /\ Called("GetLatestVideos") /\ ret'.err = NoErr) =>
            \A i \in 1..Len(ret'.videos) :
                OwnerOf(ret'.videos[i].ID) \in Range(subscribedChannels)]_vars

\* C28: a rebuild calls fetchVideosForChannels on consecutive pieces of the
\* subscription list, one after another in the order of the list: no piece is
\* empty or longer than BatchSize, the pieces of a rebuild that succeeds make
\* up the list, each ID in one piece, and the piece whose call fails is the
\* last one called.
C28_ConsecutiveBatches ==
    (ret.op = "GetLatestVideos" /\ ~ret.hit) =>
        /\ \A k \in 1..Len(ret.batches) :
              Len(ret.batches[k]) >= 1 /\ Len(ret.batches[k]) <= BatchSize
        /\ Len(Flatten(ret.batches)) <= Len(subscribedChannels)
        /\ Flatten(ret.batches) =
              SubSeq(subscribedChannels, 1, Len(Flatten(ret.batches)))
        /\ ret.metaCalls = Len(ret.batches)
        /\ ret.err = NoErr => Flatten(ret.batches) = subscribedChannels
        /\ ret.err # NoErr => ret.failedAt = Len(ret.batches)

\* a rebuild of three channels in two batches
C28_Witness ==
    /\ ret.op = "GetLatestVideos" /\ ~ret.hit /\ ret.err = NoErr
    /\ ret.batches = << <<"UC1", "UC2">>, <<"ch3">> >>

\* the channels a rebuild has fetched: those of the list that the metadata
\* response held and whose feed call succeeded
FetchedBy(r) == Range(subscribedChannels) \ (r.absent \cup r.failed)

\* C29: after a rebuild that succeeds, the videos of each channel it fetched
\* are the same in the returned sequence and in the channel's cache entry,
\* ChannelName included, so that a cache hit shows the names the rebuild
\* returned.
C29_SameNames ==
    [][(Called("GetLatestVideos") /\ ~ret'.hit /\ ret'.err = NoErr) =>
          \A c \in FetchedBy(ret') :
              /\ c \in DOMAIN videoCache'
              /\ Range(VideosOf(ret'.videos, c)) = Range(videoCache'[c])]_vars

\* C30: a rebuild in which a name-backfill call fails and every metadata call
\* succeeds returns no error and sets lastFetchTime; the videos of a fetched
\* channel whose ID the failed call was made for are returned and cached
\* under the raw channel ID.
C30_BackfillErrorDropped ==
    [][(/\ Called("GetLatestVideos") /\ ~ret'.hit
        /\ ret'.unresolved # {} /\ ~ret'.metaErr) =>
          /\ ret'.err = NoErr
          /\ lastFetchTime' = now
          /\ \A c \in ret'.unresolved \cap FetchedBy(ret') :
                /\ VideosOf(ret'.videos, c) # <<>>
                /\ \A i \in 1..Len(ret'.videos) :
                      OwnerOf(ret'.videos[i].ID) = c => ret'.videos[i].ChannelName = c
                /\ c \in DOMAIN videoCache'
                /\ \A i \in 1..Len(videoCache'[c]) : videoCache'[c][i].ChannelName = c]_vars

\* the backfill of the first batch has failed: the rebuild has succeeded and
\* a1 is returned and cached as a video of "UC1"
C30_Witness ==
    /\ ret.op = "GetLatestVideos" /\ ~ret.hit /\ ret.err = NoErr
    /\ ret.unresolved = {"UC1", "UC2"}
    /\ lastFetchTime = now
    /\ \E i \in 1..Len(ret.videos) :
          ret.videos[i].ID = "a1" /\ ret.videos[i].ChannelName = "UC1"
    /\ videoCache["UC1"] = << [ID |-> "a1", PublishedAt |-> 2, ChannelName |-> "UC1"] >>

\* C31: a GetChannelNamesForIDs none of whose batch requests fails returns no
\* error and a mapping that holds the requested IDs that were in the name
\* cache or that the remote reports, and no other; an ID the remote leaves
\* out is not in the mapping and is not written to the name cache.
C31_UnknownDropped ==
    [][(/\ Called("GetChannelNamesForIDs")
        /\ ret'.failedAt \notin
              1..CeilDiv(Len(MissingOf(ret'.ids, channelCache)), BatchSize)) =>
          /\ ret'.err = NoErr
          /\ DOMAIN ret'.names =
                {id \in Range(ret'.ids) :
                    id \in DOMAIN channelCache \/ id \notin ret'.absent}
          /\ DOMAIN channelCache' =
                DOMAIN channelCache \cup (Range(ret'.ids) \ ret'.absent)
          /\ \A id \in (Range(ret'.ids) \cap ret'.absent) \ DOMAIN channelCache :
                id \notin DOMAIN ret'.names /\ id \notin DOMAIN channelCache']_vars

\* a call on three IDs of which the remote leaves out UC2: no error, two names
C31_Witness ==
    /\ ret.op = "GetChannelNamesForIDs" /\ ret.err = NoErr
    /\ ret.ids = <<"UC1", "UC2", "ch3">> /\ ret.absent = {"UC2"}
    /\ ret.nameCalls = 2
    /\ DOMAIN ret.names = {"UC1", "ch3"}
    /\ "UC2" \notin DOMAIN channelCache

\* C32: the name backfill of a rebuild collects placeholder names only, the
\* IDs of subscribed channels that the name cache does not hold; the videos
\* of a channel whose name the cache holds are returned under that name; and
\* a rebuild of channels whose names are all in the cache issues no
\* name-resolve call.
C32_PlaceholdersOnly ==
    [][(Called("GetLatestVideos") /\ ~ret'.hit) =>
          /\ ret'.collected \subseteq Range(subscribedChannels) \ DOMAIN channelCache
          /\ \A i \in 1..Len(ret'.videos) :
                OwnerOf(ret'.videos[i].ID) \in DOMAIN channelCache =>
                   ret'.videos[i].ChannelName =
                      channelCache[OwnerOf(ret'.videos[i].ID)]
          /\ Range(subscribedChannels) \subseteq DOMAIN channelCache =>
                ret'.nameCalls = 0]_vars

\* C33: a subscription list that names no channel twice at the start names
\* none twice after any AddSubscription and RemoveSubscription calls, those
\* that are rejected or that fail to write the file included.
C33_NoDuplicate ==
    Cardinality(Range(subscribedChannels)) = Len(subscribedChannels)

\* UC1 has been added to a list of two, with the file not written, and a
\* second AddSubscription of UC1 has been rejected
C33_Witness ==
    /\ ret.op = "AddSubscription" /\ ret.arg = "UC1"
    /\ ret.err = "already subscribed to this channel"
    /\ Len(subscribedChannels) = 3 /\ subscribedChannels[3] = "UC1"
    /\ Len(persisted) = 2

\* C34: when AddSubscription or RemoveSubscription returns no error, the list
\* of the file is the list in memory, the same IDs in the same order,
\* whether or not the two were the same before the call.
C34_SavedOnSuccess ==
    [][((Called("AddSubscription") \/ Called("RemoveSubscription"))
        /\ ret'.err = NoErr) => persisted' = subscribedChannels']_vars

\* a RemoveSubscription has succeeded on a list that an AddSubscription
\* before it has made longer than the list of the file was at the start
C34_Witness ==
    /\ ret.op = "RemoveSubscription" /\ ret.err = NoErr
    /\ persisted = subscribedChannels
    /\ subscribedChannels = <<"UC2", "UC2", "ch3", "UC1">>


\* how often id is an entry of the subscription-info cache
InfoOf(id) ==
    Cardinality({i \in 1..Len(cachedSubscriptions) : cachedSubscriptions[i].ID = id})

\* how often id is subscribed to
ListedOf(id) ==
    Cardinality({i \in 1..Len(subscribedChannels) : subscribedChannels[i] = id})

\* C35: whenever the subscription-info cache is populated, every entry of it
\* has an ID of the subscription list, and no ID has more entries than it has
\* places in the list
C35_InfoWithinList ==
    Len(cachedSubscriptions) > 0 =>
        \A i \in 1..Len(cachedSubscriptions) :
            /\ cachedSubscriptions[i].ID \in Range(subscribedChannels)
            /\ InfoOf(cachedSubscriptions[i].ID) <= ListedOf(cachedSubscriptions[i].ID)


\* the text input holds nothing but blanks
Blank(input) == \A i \in 1..Len(input) : input[i] = " "

C37_CursorInList ==
    view = "subs" =>
        /\ 0 <= subModel.cursor
        /\ Len(subModel.subscriptions) > 0 =>
              subModel.cursor < Len(subModel.subscriptions)

====
